---- MODULE Spec2Model ----
(***************************************************************************)
(* Custodial vault programs of the Solana security cookbook, as state      *)
(* machines over one ledger of accounts.  An instruction is executed by    *)
(* its handler up to the external call it makes; the external call is an   *)
(* in-flight step during which the callee may re-enter the program; an     *)
(* error at any depth discards the whole enclosing transaction.            *)
(***************************************************************************)
EXTENDS Integers, Sequences, FiniteSets, TLC

VARIABLES
    prog,       \* the deployed program (fixed by Init)
    accounts,   \* address -> [lamports, owner, data]
    stack,      \* call stack of in-flight handler frames, outermost first
    result,     \* outcome of the invocation that finished or aborted last
    saved,      \* accounts and totals at the start of the transaction
    totals,     \* per address: value paid out / taken in by finished handlers
    txs         \* number of top-level instructions executed so far

vars == <<prog, accounts, stack, result, saved, totals, txs>>

----------------------------------------------------------------------------
\* Bounds of the model

\* deepest nesting of handler invocations (1 = no re-entry)
MaxDepth == 2
\* number of top-level instructions in a behaviour
MaxTx == 2
\* re-entrant invocations the callee of one external call makes
MaxReentries == 1
\* largest value of the unsigned balance word (u64::MAX, scaled down)
U64_MAX == 1023

\* lamports a vault account holds beyond recorded deposits (rent)
RENT == 1
\* lamports each user starts with
UserLamports == 1000

Amounts == {0, 500, 1000}
InitialBalances == {1000}

----------------------------------------------------------------------------
\* Identities

SYSTEM_PROGRAM_ID == 0
Users == {1, 2}
PROGRAM_ID == 100
VAULT_SIZE == 40

\* Pubkey::find_program_address(&[b"vault", user], program_id): the derived
\* address and its bump, one per (namespace, user, program).
find_program_address(tag, user, program_id) ==
    [pda |-> IF tag = "vault" THEN program_id + user ELSE program_id + 50 + user,
     bump |-> 255 - (user % 2)]

\* The address the runtime derives from signer seeds [tag, user, [bump]]:
\* the program address only for the bump find_program_address returned.
create_program_address(tag, user, bump, program_id) ==
    IF bump = find_program_address(tag, user, program_id).bump
    THEN find_program_address(tag, user, program_id).pda
    ELSE -1

Vaults == {find_program_address("vault", u, PROGRAM_ID).pda : u \in Users}
Addresses == Users \cup Vaults

ZeroData == [len |-> VAULT_SIZE, owner |-> SYSTEM_PROGRAM_ID, balance |-> 0]
NoData == [len |-> 0, owner |-> SYSTEM_PROGRAM_ID, balance |-> 0]

----------------------------------------------------------------------------
\* Record accessors

get_owner(vault_data) ==
    IF vault_data.len >= 32 THEN [ok |-> TRUE, val |-> vault_data.owner]
    ELSE [ok |-> FALSE, val |-> "InvalidAccountData"]

get_balance(vault_data) ==
    IF vault_data.len >= VAULT_SIZE THEN [ok |-> TRUE, val |-> vault_data.balance]
    ELSE [ok |-> FALSE, val |-> "InvalidAccountData"]

\* mutant: the new balance is written to a copy and never reaches the record
set_balance_dropped(vault_data, balance) ==
    IF vault_data.len >= VAULT_SIZE
    THEN [ok |-> TRUE, val |-> vault_data]
    ELSE [ok |-> FALSE, val |-> "InvalidAccountData"]

set_balance(vault_data, balance) ==
    IF vault_data.len >= VAULT_SIZE
    THEN [ok |-> TRUE, val |-> [vault_data EXCEPT !.balance = balance]]
    ELSE [ok |-> FALSE, val |-> "InvalidAccountData"]

\* u64::checked_add / checked_sub: None outside 0..u64::MAX

\* mutant: wrapping addition
wrapping_add(a, b) == [some |-> TRUE, val |-> (a + b) % (U64_MAX + 1)]

checked_add(a, b) == IF a + b > U64_MAX THEN [some |-> FALSE, val |-> 0]
                     ELSE [some |-> TRUE, val |-> a + b]

\* mutant: the difference is computed from the wrong operand
checked_sub_stale(a, b) == IF a < b THEN [some |-> FALSE, val |-> 0]
                           ELSE [some |-> TRUE, val |-> a]

\* mutant: the difference stops at zero where checked_sub gives None
saturating_sub(a, b) == [some |-> TRUE, val |-> IF a < b THEN 0 ELSE a - b]

checked_sub(a, b) == IF a < b THEN [some |-> FALSE, val |-> 0]
                     ELSE [some |-> TRUE, val |-> a - b]

----------------------------------------------------------------------------
\* Instructions handed to the entry point

Instruction(t, u, s, v, a, n, l) ==
    [tag |-> t, user |-> u, signer |-> s, vault |-> v, amount |-> a,
     nacc |-> n, ilen |-> l]

\* complete instructions: three handles, the tag byte and 8 amount bytes
WellFormed ==
    {Instruction(t, u, s, v, a, 3, 9) :
        t \in {0, 1, 2}, u \in Users, s \in BOOLEAN, v \in Vaults, a \in Amounts}

\* empty data, a tag byte alone, an unknown tag, short handle lists
Malformed ==
    {Instruction(t, 1, s, find_program_address("vault", 1, PROGRAM_ID).pda, 0, 3, l) :
        t \in {0, 1, 2, 3}, s \in BOOLEAN, l \in {0, 1}}
    \cup
    {Instruction(t, 1, s, find_program_address("vault", 1, PROGRAM_ID).pda, 0, n, 9) :
        t \in {0, 1, 2, 3}, s \in BOOLEAN, n \in {1, 2}}

Instructions == WellFormed \cup Malformed

----------------------------------------------------------------------------
\* The ledger

Depth == Len(stack)
Top == stack[Len(stack)]

NoResult ==
    [op |-> "none", depth |-> 0, status |-> "none",
     ix |-> Instruction(0, 1, FALSE, 1, 0, 0, 0), seen |-> -1, children |-> 0,
     parent |-> "none", pvault |-> -1, committed |-> -1, first |-> FALSE,
     closed |-> FALSE]

\* an instruction can start at top level, or from inside an in-flight external call
CanInvoke ==
    \/ Depth = 0 /\ txs < MaxTx
    \/ /\ Depth > 0
       /\ Depth < MaxDepth
       /\ Top.pc \in {"cpi", "moved", "assign", "assigned"}
       /\ Top.children < MaxReentries

\* what an invocation finds on the stack below it: the handler whose external
\* call is in flight, its vault, and the balance that handler last stored
ParentOp == IF Depth = 0 THEN "none" ELSE Top.op
ParentVault == IF Depth = 0 THEN -1 ELSE Top.ix.vault
ParentCommitted == IF Depth = 0 THEN -1 ELSE Top.new_balance
\* no other re-entrant call has finished under the parent yet
FirstChild == Depth > 0 /\ Top.children = 0
\* a close of this vault has returned Ok before the invocation started
WasClosed(v) == v \in totals.closed

Outcome(op, ix, status, seen) ==
    [op |-> op, depth |-> Depth + 1, status |-> status, ix |-> ix, seen |-> seen,
     children |-> 0, parent |-> ParentOp, pvault |-> ParentVault,
     committed |-> ParentCommitted, first |-> FirstChild,
     closed |-> WasClosed(ix.vault)]

TxStart == [accounts |-> accounts, totals |-> totals]

\* mutant: an error ends the transaction and leaves the effects already applied
AbortKeepingEffects(res) ==
    /\ accounts' = accounts
    /\ totals' = totals
    /\ saved' = TxStart
    /\ stack' = <<>>
    /\ result' = res
    /\ txs' = txs + 1
    /\ prog' = prog

\* Any error ends the enclosing transaction: every storage effect is rolled back.
Abort(res) ==
    /\ accounts' = IF Depth = 0 THEN accounts ELSE saved.accounts
    /\ totals' = IF Depth = 0 THEN totals ELSE saved.totals
    /\ saved' = IF Depth = 0 THEN TxStart ELSE saved
    /\ stack' = <<>>
    /\ result' = res
    /\ txs' = txs + 1
    /\ prog' = prog

\* The runtime lets a program change the data of the accounts it owns only.
DataWritable(acc) ==
    \A a \in Addresses : acc[a].data # accounts[a].data => accounts[a].owner = PROGRAM_ID

\* The invocation returns Ok within the step that runs it.
Commit(res, acc, tot) ==
    /\ accounts' = acc
    /\ totals' = tot
    /\ saved' = IF Depth = 0 THEN TxStart ELSE saved
    /\ stack' = IF Depth = 0 THEN stack
                ELSE [stack EXCEPT ![Depth].children = @ + 1]
    /\ result' = res
    /\ txs' = IF Depth = 0 THEN txs + 1 ELSE txs
    /\ prog' = prog

\* A handler that makes no external call finishes within the step that runs it.
Finish(res, acc, tot) ==
    IF ~DataWritable(acc)
    THEN Abort([res EXCEPT !.status = "ExternalAccountDataModified"])
    ELSE Commit(res, acc, tot)

\* A handler that reached its external call stays on the stack while it is in flight.
Call(frame, acc) ==
    IF ~DataWritable(acc)
    THEN Abort([op |-> frame.op, depth |-> Depth + 1,
                status |-> "ExternalAccountDataModified", ix |-> frame.ix,
                seen |-> frame.balance, children |-> 0, parent |-> frame.parent,
                pvault |-> frame.pvault, committed |-> frame.committed,
                first |-> frame.first, closed |-> frame.closed])
    ELSE /\ accounts' = acc
         /\ totals' = totals
         /\ saved' = IF Depth = 0 THEN TxStart ELSE saved
         /\ stack' = Append(stack, frame)
         /\ result' = NoResult
         /\ txs' = txs
         /\ prog' = prog

Frame(op, ix, balance, new_balance, bump, cpi) ==
    [op |-> op, ix |-> ix, pc |-> "cpi", balance |-> balance,
     new_balance |-> new_balance, bump |-> bump, children |-> 0, cpi |-> cpi,
     parent |-> ParentOp, pvault |-> ParentVault, committed |-> ParentCommitted,
     first |-> FirstChild, closed |-> WasClosed(ix.vault)]

FrameOutcome(status) ==
    [op |-> Top.op, depth |-> Depth, status |-> status, ix |-> Top.ix,
     seen |-> Top.balance, children |-> Top.children, parent |-> Top.parent,
     pvault |-> Top.pvault, committed |-> Top.committed, first |-> Top.first,
     closed |-> Top.closed]

WithData(acc, a, d) == [acc EXCEPT ![a].data = d]

Move(acc, from, to, n) ==
    IF from = to THEN acc
    ELSE [acc EXCEPT ![from].lamports = @ - n, ![to].lamports = @ + n]

----------------------------------------------------------------------------
\* The external value-transfer primitive (system program Transfer)

\* Transfer { from, to, lamports }.invoke(): the source signs as a handle
UnsignedTransfer(ix, from, to, n) ==
    [kind |-> "transfer", from |-> from, to |-> to, lamports |-> n,
     authorized |-> ix.signer /\ from = ix.user]

\* mutant: the lamports of a signed transfer go to another user than the one named
SignedTransferRedirected(tag, user, bump, from, to, n) ==
    [kind |-> "transfer", from |-> from,
     to |-> IF to \in Users THEN CHOOSE u \in Users : u # to ELSE to,
     lamports |-> n,
     authorized |-> create_program_address(tag, user, bump, PROGRAM_ID) = from]

\* Transfer { from, to, lamports }.invoke_signed(&[[tag, user, [bump]]])
SignedTransfer(tag, user, bump, from, to, n) ==
    [kind |-> "transfer", from |-> from, to |-> to, lamports |-> n,
     authorized |-> create_program_address(tag, user, bump, PROGRAM_ID) = from]

\* The transfer takes effect while the external call is in flight.
TransferApplies ==
    /\ Depth > 0
    /\ Top.pc = "cpi"
    /\ Top.cpi.kind = "transfer"
    /\ IF ~Top.cpi.authorized
       THEN Abort(FrameOutcome("MissingRequiredSignature"))
       ELSE IF accounts[Top.cpi.from].lamports < Top.cpi.lamports
       THEN Abort(FrameOutcome("InsufficientLamports"))
       ELSE /\ accounts' = Move(accounts, Top.cpi.from, Top.cpi.to, Top.cpi.lamports)
            /\ stack' = [stack EXCEPT ![Depth].pc = "moved"]
            /\ UNCHANGED <<prog, result, saved, totals, txs>>

\* The external call fails for a reason of its own.
CpiFails ==
    /\ Depth > 0
    /\ Top.pc \in {"cpi", "assign"}
    /\ Abort(FrameOutcome("CpiFailed"))

\* Assign { account, owner }.invoke_signed(&[[tag, user, [bump]]])
SignedAssign(tag, user, bump, account, owner) ==
    [kind |-> "assign", from |-> account, to |-> owner, lamports |-> 0,
     authorized |-> create_program_address(tag, user, bump, PROGRAM_ID) = account]

\* The reassignment takes effect while the external call is in flight.
AssignApplies ==
    /\ Depth > 0
    /\ Top.pc = "assign"
    /\ Top.cpi.kind = "assign"
    /\ IF ~Top.cpi.authorized
       THEN Abort(FrameOutcome("MissingRequiredSignature"))
       ELSE /\ accounts' = [accounts EXCEPT ![Top.cpi.from].owner = Top.cpi.to]
            /\ stack' = [stack EXCEPT ![Depth].pc = "assigned"]
            /\ UNCHANGED <<prog, result, saved, totals, txs>>

\* The last external call has returned Ok: the handler returns Ok(()) to its
\* invoker, leaving the ledger acc.
ReturnedWith(acc, tot) ==
    /\ accounts' = acc
    /\ totals' = tot
    /\ saved' = saved
    /\ stack' = IF Depth = 1 THEN <<>>
                ELSE [SubSeq(stack, 1, Depth - 1) EXCEPT ![Depth - 1].children = @ + 1]
    /\ result' = FrameOutcome("Ok")
    /\ txs' = IF Depth = 1 THEN txs + 1 ELSE txs
    /\ prog' = prog

Returned(tot) == ReturnedWith(accounts, tot)

----------------------------------------------------------------------------
\* 04-reentrancy-risk, secure variant

process_instruction_rejects(ix) ==
    /\ CanInvoke
    /\ ix.ilen = 0 \/ ix.tag \notin {0, 1, 2}
    /\ Abort(Outcome("dispatch", ix, "InvalidInstructionData", -1))

\* mutant: initialize without the comparison of the derived address with the
\* vault handle
process_initialize_any_vault(ix) ==
    LET data == accounts[ix.vault].data
    IN  /\ CanInvoke
        /\ ix.ilen > 0 /\ ix.tag = 0
        /\ IF ix.nacc < 2
           THEN Abort(Outcome("initialize", ix, "NotEnoughAccountKeys", -1))
           ELSE IF ~ix.signer
           THEN Abort(Outcome("initialize", ix, "MissingRequiredSignature", -1))
           ELSE IF data.len < VAULT_SIZE
           THEN Abort(Outcome("initialize", ix, "InvalidAccountData", -1))
           ELSE Finish(Outcome("initialize", ix, "Ok", -1),
                       WithData(accounts, ix.vault,
                                [data EXCEPT !.owner = ix.user, !.balance = 0]),
                       totals)

process_initialize(ix) ==
    LET pda == find_program_address("vault", ix.user, PROGRAM_ID).pda
        data == accounts[ix.vault].data
    IN  /\ CanInvoke
        /\ ix.ilen > 0 /\ ix.tag = 0
        /\ IF ix.nacc < 2
           THEN Abort(Outcome("initialize", ix, "NotEnoughAccountKeys", -1))
           ELSE IF ~ix.signer
           THEN Abort(Outcome("initialize", ix, "MissingRequiredSignature", -1))
           ELSE IF pda # ix.vault
           THEN Abort(Outcome("initialize", ix, "InvalidSeeds", -1))
           ELSE IF data.len < VAULT_SIZE
           THEN Abort(Outcome("initialize", ix, "InvalidAccountData", -1))
           ELSE Finish(Outcome("initialize", ix, "Ok", -1),
                       WithData(accounts, ix.vault,
                                [data EXCEPT !.owner = ix.user, !.balance = 0]),
                       totals)

process_deposit(ix) ==
    LET pda == find_program_address("vault", ix.user, PROGRAM_ID).pda
        data == accounts[ix.vault].data
        old_balance == get_balance(data)
        new_balance == checked_add(old_balance.val, ix.amount)
    IN  /\ CanInvoke
        /\ ix.ilen > 0 /\ ix.tag = 1
        /\ IF ix.nacc < 3
           THEN Abort(Outcome("deposit", ix, "NotEnoughAccountKeys", -1))
           ELSE IF ~ix.signer
           THEN Abort(Outcome("deposit", ix, "MissingRequiredSignature", -1))
           ELSE IF pda # ix.vault
           THEN Abort(Outcome("deposit", ix, "InvalidSeeds", -1))
           ELSE IF ix.ilen < 9
           THEN Abort(Outcome("deposit", ix, "Panic", -1))
           ELSE IF ~old_balance.ok
           THEN Abort(Outcome("deposit", ix, "InvalidAccountData", -1))
           ELSE IF ~new_balance.some
           THEN Abort(Outcome("deposit", ix, "ArithmeticOverflow", old_balance.val))
           ELSE Call(Frame("deposit", ix, old_balance.val, new_balance.val, 0,
                           UnsignedTransfer(ix, ix.user, ix.vault, ix.amount)),
                     WithData(accounts, ix.vault, set_balance(data, new_balance.val).val))

deposit_returns ==
    /\ Depth > 0
    /\ Top.op = "deposit"
    /\ Top.pc = "moved"
    /\ Returned([totals EXCEPT !.deposited[Top.ix.vault] = @ + Top.ix.amount])

process_withdraw(ix) ==
    LET found == find_program_address("vault", ix.user, PROGRAM_ID)
        data == accounts[ix.vault].data
        owner == get_owner(data)
        balance == get_balance(data)
        new_balance == checked_sub(balance.val, ix.amount)
    IN  /\ CanInvoke
        /\ ix.ilen > 0 /\ ix.tag = 2
        /\ IF ix.nacc < 2
           THEN Abort(Outcome("withdraw", ix, "NotEnoughAccountKeys", -1))
           ELSE IF ix.ilen < 9
           THEN Abort(Outcome("withdraw", ix, "Panic", -1))
           ELSE IF ~ix.signer
           THEN Abort(Outcome("withdraw", ix, "MissingRequiredSignature", -1))
           ELSE IF found.pda # ix.vault
           THEN Abort(Outcome("withdraw", ix, "InvalidSeeds", -1))
           ELSE IF ~owner.ok
           THEN Abort(Outcome("withdraw", ix, "InvalidAccountData", -1))
           ELSE IF owner.val # ix.user
           THEN Abort(Outcome("withdraw", ix, "IllegalOwner", -1))
           ELSE IF ~balance.ok
           THEN Abort(Outcome("withdraw", ix, "InvalidAccountData", -1))
           ELSE IF balance.val < ix.amount
           THEN Abort(Outcome("withdraw", ix, "InsufficientFunds", balance.val))
           ELSE IF ~new_balance.some
           THEN Abort(Outcome("withdraw", ix, "InsufficientFunds", balance.val))
           ELSE Call(Frame("withdraw", ix, balance.val, new_balance.val, found.bump,
                           SignedTransfer("vault", ix.user, found.bump,
                                          ix.vault, ix.user, ix.amount)),
                     WithData(accounts, ix.vault, set_balance(data, new_balance.val).val))

\* mutant: withdraw stores, after its transfer, the balance it read less the amount
withdraw_returns_storing_stale ==
    /\ Depth > 0
    /\ Top.op = "withdraw"
    /\ Top.pc = "moved"
    /\ ReturnedWith([accounts EXCEPT
                        ![Top.ix.vault].data.balance = Top.balance - Top.ix.amount],
                    [totals EXCEPT !.paid[Top.ix.vault] = @ + Top.ix.amount])

withdraw_returns ==
    /\ Depth > 0
    /\ Top.op = "withdraw"
    /\ Top.pc = "moved"
    /\ Returned([totals EXCEPT !.paid[Top.ix.vault] = @ + Top.ix.amount])

----------------------------------------------------------------------------
\* 03-arithmetic-overflow, secure variant

process_initialize_arith(ix) ==
    LET pda == find_program_address("vault", ix.user, PROGRAM_ID).pda
        data == accounts[ix.vault].data
    IN  /\ CanInvoke
        /\ ix.ilen > 0 /\ ix.tag = 0
        /\ IF ix.nacc < 2
           THEN Abort(Outcome("initialize", ix, "NotEnoughAccountKeys", -1))
           ELSE IF ~ix.signer
           THEN Abort(Outcome("initialize", ix, "MissingRequiredSignature", -1))
           ELSE IF pda # ix.vault
           THEN Abort(Outcome("initialize", ix, "InvalidSeeds", -1))
           ELSE IF data.len < VAULT_SIZE
           THEN Abort(Outcome("initialize", ix, "InvalidAccountData", -1))
           ELSE Finish(Outcome("initialize", ix, "Ok", -1),
                       WithData(accounts, ix.vault,
                                [data EXCEPT !.owner = ix.user, !.balance = 0]),
                       totals)

process_deposit_arith(ix) ==
    LET pda == find_program_address("vault", ix.user, PROGRAM_ID).pda
        data == accounts[ix.vault].data
        old_balance == get_balance(data)
        new_balance == checked_add(old_balance.val, ix.amount)
    IN  /\ CanInvoke
        /\ ix.ilen > 0 /\ ix.tag = 1
        /\ IF ix.nacc < 3
           THEN Abort(Outcome("deposit", ix, "NotEnoughAccountKeys", -1))
           ELSE IF ~ix.signer
           THEN Abort(Outcome("deposit", ix, "MissingRequiredSignature", -1))
           ELSE IF pda # ix.vault
           THEN Abort(Outcome("deposit", ix, "InvalidSeeds", -1))
           ELSE IF ix.ilen < 9
           THEN Abort(Outcome("deposit", ix, "Panic", -1))
           ELSE IF ~old_balance.ok
           THEN Abort(Outcome("deposit", ix, "InvalidAccountData", -1))
           ELSE IF ~new_balance.some
           THEN Abort(Outcome("deposit", ix, "ArithmeticOverflow", old_balance.val))
           ELSE Call(Frame("deposit", ix, old_balance.val, new_balance.val, 0,
                           UnsignedTransfer(ix, ix.user, ix.vault, ix.amount)),
                     WithData(accounts, ix.vault, set_balance(data, new_balance.val).val))

process_withdraw_arith(ix) ==
    LET found == find_program_address("vault", ix.user, PROGRAM_ID)
        data == accounts[ix.vault].data
        owner == get_owner(data)
        old_balance == get_balance(data)
        new_balance == checked_sub(old_balance.val, ix.amount)
    IN  /\ CanInvoke
        /\ ix.ilen > 0 /\ ix.tag = 2
        /\ IF ix.nacc < 2
           THEN Abort(Outcome("withdraw", ix, "NotEnoughAccountKeys", -1))
           ELSE IF ix.ilen < 9
           THEN Abort(Outcome("withdraw", ix, "Panic", -1))
           ELSE IF ~ix.signer
           THEN Abort(Outcome("withdraw", ix, "MissingRequiredSignature", -1))
           ELSE IF found.pda # ix.vault
           THEN Abort(Outcome("withdraw", ix, "InvalidSeeds", -1))
           ELSE IF ~owner.ok
           THEN Abort(Outcome("withdraw", ix, "InvalidAccountData", -1))
           ELSE IF owner.val # ix.user
           THEN Abort(Outcome("withdraw", ix, "IllegalOwner", -1))
           ELSE IF ~old_balance.ok
           THEN Abort(Outcome("withdraw", ix, "InvalidAccountData", -1))
           ELSE IF ~new_balance.some
           THEN Abort(Outcome("withdraw", ix, "InsufficientFunds", old_balance.val))
           ELSE Call(Frame("withdraw", ix, old_balance.val, new_balance.val, found.bump,
                           SignedTransfer("vault", ix.user, found.bump,
                                          ix.vault, ix.user, ix.amount)),
                     WithData(accounts, ix.vault, set_balance(data, new_balance.val).val))

----------------------------------------------------------------------------
\* 02-incorrect-pda-validation, secure variant (the vault keeps no record)

\* mutant: the derived address is not compared with the vault handle
pda_vault_unchecked(ix) == TRUE

\* pda.to_bytes() == *vault.address()
pda_vault_is_derived(ix) ==
    find_program_address("vault", ix.user, PROGRAM_ID).pda = ix.vault

\* mutant: the signer flag of the user handle is not read
pda_user_unchecked(ix) == TRUE

\* user.is_signer()
pda_user_is_signer(ix) == ix.signer

process_initialize_pda(ix) ==
    /\ CanInvoke
    /\ ix.ilen > 0 /\ ix.tag = 0
    /\ IF ix.nacc < 2
       THEN Abort(Outcome("initialize", ix, "NotEnoughAccountKeys", -1))
       ELSE IF ~pda_user_is_signer(ix)
       THEN Abort(Outcome("initialize", ix, "MissingRequiredSignature", -1))
       ELSE IF ~pda_vault_is_derived(ix)
       THEN Abort(Outcome("initialize", ix, "InvalidSeeds", -1))
       ELSE Finish(Outcome("initialize", ix, "Ok", -1), accounts, totals)

process_deposit_pda(ix) ==
    /\ CanInvoke
    /\ ix.ilen > 0 /\ ix.tag = 1
    /\ IF ix.nacc < 3
       THEN Abort(Outcome("deposit", ix, "NotEnoughAccountKeys", -1))
       ELSE IF ~pda_user_is_signer(ix)
       THEN Abort(Outcome("deposit", ix, "MissingRequiredSignature", -1))
       ELSE IF ~pda_vault_is_derived(ix)
       THEN Abort(Outcome("deposit", ix, "InvalidSeeds", -1))
       ELSE IF ix.ilen < 9
       THEN Abort(Outcome("deposit", ix, "Panic", -1))
       ELSE Call(Frame("deposit", ix, -1, -1, 0,
                       UnsignedTransfer(ix, ix.user, ix.vault, ix.amount)),
                 accounts)

process_withdraw_pda(ix) ==
    LET bump == find_program_address("vault", ix.user, PROGRAM_ID).bump
    IN  /\ CanInvoke
        /\ ix.ilen > 0 /\ ix.tag = 2
        /\ IF ix.nacc < 2
           THEN Abort(Outcome("withdraw", ix, "NotEnoughAccountKeys", -1))
           ELSE IF ix.ilen < 9
           THEN Abort(Outcome("withdraw", ix, "Panic", -1))
           ELSE IF ~pda_user_is_signer(ix)
           THEN Abort(Outcome("withdraw", ix, "MissingRequiredSignature", -1))
           ELSE IF ~pda_vault_is_derived(ix)
           THEN Abort(Outcome("withdraw", ix, "InvalidSeeds", -1))
           ELSE Call(Frame("withdraw", ix, -1, -1, bump,
                           SignedTransfer("vault", ix.user, bump,
                                          ix.vault, ix.user, ix.amount)),
                     accounts)

----------------------------------------------------------------------------
\* 01-missing-signer-check, secure variant (the vault keeps no record)

\* mutant: the signer flag of the user handle is not read
signer_user_unchecked(ix) == TRUE

\* user.is_signer()
signer_user_is_signer(ix) == ix.signer

process_initialize_signer(ix) ==
    LET pda == find_program_address("vault", ix.user, PROGRAM_ID).pda
    IN  /\ CanInvoke
        /\ ix.ilen > 0 /\ ix.tag = 0
        /\ IF ix.nacc < 2
           THEN Abort(Outcome("initialize", ix, "NotEnoughAccountKeys", -1))
           ELSE IF ~signer_user_is_signer(ix)
           THEN Abort(Outcome("initialize", ix, "MissingRequiredSignature", -1))
           ELSE IF pda # ix.vault
           THEN Abort(Outcome("initialize", ix, "InvalidSeeds", -1))
           ELSE Finish(Outcome("initialize", ix, "Ok", -1), accounts, totals)

process_deposit_signer(ix) ==
    LET pda == find_program_address("vault", ix.user, PROGRAM_ID).pda
    IN  /\ CanInvoke
        /\ ix.ilen > 0 /\ ix.tag = 1
        /\ IF ix.nacc < 3
           THEN Abort(Outcome("deposit", ix, "NotEnoughAccountKeys", -1))
           ELSE IF ~signer_user_is_signer(ix)
           THEN Abort(Outcome("deposit", ix, "MissingRequiredSignature", -1))
           ELSE IF pda # ix.vault
           THEN Abort(Outcome("deposit", ix, "InvalidSeeds", -1))
           ELSE IF ix.ilen < 9
           THEN Abort(Outcome("deposit", ix, "Panic", -1))
           ELSE Call(Frame("deposit", ix, -1, -1, 0,
                           UnsignedTransfer(ix, ix.user, ix.vault, ix.amount)),
                     accounts)

process_withdraw_signer(ix) ==
    LET found == find_program_address("vault", ix.user, PROGRAM_ID)
    IN  /\ CanInvoke
        /\ ix.ilen > 0 /\ ix.tag = 2
        /\ IF ix.nacc < 2
           THEN Abort(Outcome("withdraw", ix, "NotEnoughAccountKeys", -1))
           ELSE IF ix.ilen < 9
           THEN Abort(Outcome("withdraw", ix, "Panic", -1))
           ELSE IF ~signer_user_is_signer(ix)
           THEN Abort(Outcome("withdraw", ix, "MissingRequiredSignature", -1))
           ELSE IF found.pda # ix.vault
           THEN Abort(Outcome("withdraw", ix, "InvalidSeeds", -1))
           ELSE Call(Frame("withdraw", ix, -1, -1, found.bump,
                           SignedTransfer("vault", ix.user, found.bump,
                                          ix.vault, ix.user, ix.amount)),
                     accounts)

----------------------------------------------------------------------------
\* 05-unsafe-account-closure, secure variant (tag 2 selects close)

process_initialize_close(ix) ==
    LET pda == find_program_address("vault", ix.user, PROGRAM_ID).pda
        data == accounts[ix.vault].data
    IN  /\ CanInvoke
        /\ ix.ilen > 0 /\ ix.tag = 0
        /\ IF ix.nacc < 2
           THEN Abort(Outcome("initialize", ix, "NotEnoughAccountKeys", -1))
           ELSE IF ~ix.signer
           THEN Abort(Outcome("initialize", ix, "MissingRequiredSignature", -1))
           ELSE IF pda # ix.vault
           THEN Abort(Outcome("initialize", ix, "InvalidSeeds", -1))
           ELSE IF data.len < VAULT_SIZE
           THEN Abort(Outcome("initialize", ix, "InvalidAccountData", -1))
           ELSE Finish(Outcome("initialize", ix, "Ok", -1),
                       WithData(accounts, ix.vault,
                                [data EXCEPT !.owner = ix.user, !.balance = 0]),
                       totals)

process_deposit_close(ix) ==
    LET pda == find_program_address("vault", ix.user, PROGRAM_ID).pda
        data == accounts[ix.vault].data
        old_balance == get_balance(data)
        new_balance == checked_add(old_balance.val, ix.amount)
    IN  /\ CanInvoke
        /\ ix.ilen > 0 /\ ix.tag = 1
        /\ IF ix.nacc < 3
           THEN Abort(Outcome("deposit", ix, "NotEnoughAccountKeys", -1))
           ELSE IF ~ix.signer
           THEN Abort(Outcome("deposit", ix, "MissingRequiredSignature", -1))
           ELSE IF pda # ix.vault
           THEN Abort(Outcome("deposit", ix, "InvalidSeeds", -1))
           ELSE IF ix.ilen < 9
           THEN Abort(Outcome("deposit", ix, "Panic", -1))
           ELSE IF ~old_balance.ok
           THEN Abort(Outcome("deposit", ix, "InvalidAccountData", -1))
           ELSE IF ~new_balance.some
           THEN Abort(Outcome("deposit", ix, "ArithmeticOverflow", old_balance.val))
           ELSE Call(Frame("deposit", ix, old_balance.val, new_balance.val, 0,
                           UnsignedTransfer(ix, ix.user, ix.vault, ix.amount)),
                     WithData(accounts, ix.vault, set_balance(data, new_balance.val).val))

\* mutant: only the balance word is cleared
zero_balance_only(vault_data) == [vault_data EXCEPT !.balance = 0]

\* for byte in vault_data.iter_mut() { *byte = 0 }: every byte of the data
\* section is cleared, its length stays
zero_all_bytes(vault_data) ==
    [vault_data EXCEPT !.owner = SYSTEM_PROGRAM_ID, !.balance = 0]

\* mutant: close without the comparison of the stored owner with the caller
process_close_any_owner(ix) ==
    LET found == find_program_address("vault", ix.user, PROGRAM_ID)
        data == accounts[ix.vault].data
    IN  /\ CanInvoke
        /\ ix.ilen > 0 /\ ix.tag = 2
        /\ IF ix.nacc < 2
           THEN Abort(Outcome("close", ix, "NotEnoughAccountKeys", -1))
           ELSE IF ~ix.signer
           THEN Abort(Outcome("close", ix, "MissingRequiredSignature", -1))
           ELSE IF found.pda # ix.vault
           THEN Abort(Outcome("close", ix, "InvalidSeeds", -1))
           ELSE Call(Frame("close", ix, -1, -1, found.bump,
                           SignedTransfer("vault", ix.user, found.bump,
                                          ix.vault, ix.user, accounts[ix.vault].lamports)),
                     WithData(accounts, ix.vault, zero_all_bytes(data)))

\* close up to its first external call: checks, the zero step, and the transfer
\* of every lamport the vault holds
process_close(ix) ==
    LET found == find_program_address("vault", ix.user, PROGRAM_ID)
        data == accounts[ix.vault].data
        owner == get_owner(data)
        vault_lamports == accounts[ix.vault].lamports
    IN  /\ CanInvoke
        /\ ix.ilen > 0 /\ ix.tag = 2
        /\ IF ix.nacc < 2
           THEN Abort(Outcome("close", ix, "NotEnoughAccountKeys", -1))
           ELSE IF ~ix.signer
           THEN Abort(Outcome("close", ix, "MissingRequiredSignature", -1))
           ELSE IF found.pda # ix.vault
           THEN Abort(Outcome("close", ix, "InvalidSeeds", -1))
           ELSE IF ~owner.ok
           THEN Abort(Outcome("close", ix, "InvalidAccountData", -1))
           ELSE IF owner.val # ix.user
           THEN Abort(Outcome("close", ix, "IllegalOwner", -1))
           ELSE Call(Frame("close", ix, -1, -1, found.bump,
                           SignedTransfer("vault", ix.user, found.bump,
                                          ix.vault, ix.user, vault_lamports)),
                     WithData(accounts, ix.vault, zero_all_bytes(data)))

\* the transfer has returned Ok: close invokes the reassignment to the system program
close_assigns ==
    /\ Depth > 0
    /\ Top.op = "close"
    /\ Top.pc = "moved"
    /\ stack' = [stack EXCEPT ![Depth].pc = "assign",
                              ![Depth].cpi = SignedAssign("vault", Top.ix.user, Top.bump,
                                                          Top.ix.vault, SYSTEM_PROGRAM_ID)]
    /\ UNCHANGED <<prog, accounts, result, saved, totals, txs>>

close_returns ==
    /\ Depth > 0
    /\ Top.op = "close"
    /\ Top.pc = "assigned"
    /\ Returned([totals EXCEPT !.closed = @ \cup {Top.ix.vault}])

\* what is left of an account the runtime has dropped
Dropped == [lamports |-> 0, owner |-> SYSTEM_PROGRAM_ID, data |-> NoData]

\* The runtime drops an account that holds no lamports once the transaction that
\* emptied it has ended; instructions that follow in the same transaction run
\* before that.
PurgeEmpty ==
    /\ Depth = 0
    /\ \E v \in Vaults :
          /\ accounts[v].lamports = 0
          /\ accounts[v] # Dropped
          /\ accounts' = [accounts EXCEPT ![v] = Dropped]
    /\ saved' = [accounts |-> accounts', totals |-> totals]
    /\ UNCHANGED <<prog, stack, result, totals, txs>>

----------------------------------------------------------------------------
\* 01-missing-signer-check, Anchor secure variant.  The account constraints
\* run before the handler; the vault record is read into memory on entry and
\* written back when the handler exits.

VaultSpace == 8 + 32 + 8

\* Account<'info, Vault>: the account is this program's and holds a Vault
IsVault(a) == accounts[a].owner = PROGRAM_ID /\ accounts[a].data.len = VaultSpace

\* seeds = [b"vault", vault.owner.as_ref()], bump
SeedsMatch(a) ==
    find_program_address("vault", accounts[a].data.owner, PROGRAM_ID).pda = a

\* the generated entry point finds no method for the data, or cannot read its arguments
dispatch_rejects(ix) ==
    /\ CanInvoke
    /\ IF ix.ilen = 0 \/ ix.tag \notin {0, 1, 2}
       THEN Abort(Outcome("dispatch", ix, "InstructionFallbackNotFound", -1))
       ELSE /\ ix.tag \in {1, 2}
            /\ ix.ilen < 9
            /\ Abort(Outcome("dispatch", ix, "InstructionDidNotDeserialize", -1))

initialize(ix) ==
    /\ CanInvoke
    /\ ix.ilen > 0 /\ ix.tag = 0
    /\ IF ix.nacc < 3
       THEN Abort(Outcome("initialize", ix, "AccountNotEnoughKeys", -1))
       ELSE IF ~ix.signer
       THEN Abort(Outcome("initialize", ix, "AccountNotSigner", -1))
       ELSE IF find_program_address("vault", ix.user, PROGRAM_ID).pda # ix.vault
       THEN Abort(Outcome("initialize", ix, "ConstraintSeeds", -1))
       ELSE IF accounts[ix.vault] # Dropped
       THEN Abort(Outcome("initialize", ix, "AccountAlreadyInUse", -1))
       ELSE IF accounts[ix.user].lamports < RENT
       THEN Abort(Outcome("initialize", ix, "InsufficientLamports", -1))
       ELSE Commit(Outcome("initialize", ix, "Ok", -1),
                   [Move(accounts, ix.user, ix.vault, RENT) EXCEPT
                       ![ix.vault].owner = PROGRAM_ID,
                       ![ix.vault].data = [len |-> VaultSpace, owner |-> ix.user,
                                           balance |-> 0]],
                   totals)

deposit(ix) ==
    LET balance == accounts[ix.vault].data.balance
        new_balance == checked_add(balance, ix.amount)
    IN  /\ CanInvoke
        /\ ix.ilen >= 9 /\ ix.tag = 1
        /\ IF ix.nacc < 3
           THEN Abort(Outcome("deposit", ix, "AccountNotEnoughKeys", -1))
           ELSE IF ~ix.signer
           THEN Abort(Outcome("deposit", ix, "AccountNotSigner", -1))
           ELSE IF ~IsVault(ix.vault)
           THEN Abort(Outcome("deposit", ix, "AccountNotInitialized", -1))
           ELSE IF ~SeedsMatch(ix.vault)
           THEN Abort(Outcome("deposit", ix, "ConstraintSeeds", -1))
           ELSE IF ~new_balance.some
           THEN Abort(Outcome("deposit", ix, "Panic", balance))
           ELSE Call(Frame("deposit", ix, balance, new_balance.val, 0,
                           UnsignedTransfer(ix, ix.user, ix.vault, ix.amount)),
                     accounts)

\* the transfer has returned Ok: deposit returns, and the record is written back
deposit_exit ==
    /\ Depth > 0
    /\ Top.op = "deposit"
    /\ Top.pc = "moved"
    /\ LET acc == [accounts EXCEPT ![Top.ix.vault].data.balance = Top.new_balance]
       IN  IF ~DataWritable(acc)
           THEN Abort(FrameOutcome("ExternalAccountDataModified"))
           ELSE ReturnedWith(acc,
                             [totals EXCEPT !.deposited[Top.ix.vault] = @ + Top.ix.amount])

withdraw(ix) ==
    LET vault == accounts[ix.vault]
        balance == vault.data.balance
        new_balance == checked_sub(balance, ix.amount)
    IN  /\ CanInvoke
        /\ ix.ilen >= 9 /\ ix.tag = 2
        /\ IF ix.nacc < 2
           THEN Abort(Outcome("withdraw", ix, "AccountNotEnoughKeys", -1))
           ELSE IF ~ix.signer
           THEN Abort(Outcome("withdraw", ix, "AccountNotSigner", -1))
           ELSE IF ~IsVault(ix.vault)
           THEN Abort(Outcome("withdraw", ix, "AccountNotInitialized", -1))
           ELSE IF ~SeedsMatch(ix.vault)
           THEN Abort(Outcome("withdraw", ix, "ConstraintSeeds", -1))
           ELSE IF vault.data.owner # ix.user
           THEN Abort(Outcome("withdraw", ix, "Unauthorized", -1))
           ELSE IF ~new_balance.some
           THEN Abort(Outcome("withdraw", ix, "Panic", balance))
           ELSE IF vault.lamports < ix.amount
           THEN Abort(Outcome("withdraw", ix, "Panic", balance))
           ELSE Commit(Outcome("withdraw", ix, "Ok", balance),
                       [Move(accounts, ix.vault, ix.user, ix.amount) EXCEPT
                           ![ix.vault].data.balance = new_balance.val],
                       [totals EXCEPT !.paid[ix.vault] = @ + ix.amount])

----------------------------------------------------------------------------
\* Initial ledgers

UserAccount == [lamports |-> UserLamports, owner |-> SYSTEM_PROGRAM_ID, data |-> NoData]

\* an allocated, never initialized vault account of the program
FreshVault == [lamports |-> RENT, owner |-> PROGRAM_ID, data |-> ZeroData]

\* the vault of user u after initialize and deposits adding up to b
FundedVault(u, b) ==
    [lamports |-> RENT + b, owner |-> PROGRAM_ID,
     data |-> [len |-> VAULT_SIZE, owner |-> u, balance |-> b]]

VaultOf(u) == find_program_address("vault", u, PROGRAM_ID).pda
OwnerOf(v) == CHOOSE u \in Users : VaultOf(u) = v

\* totals of the finished handlers, and the balances recorded in the ledger acc
TotalsAt(acc) ==
    [paid |-> [a \in Addresses |-> 0],
     deposited |-> [a \in Addresses |-> 0],
     initial |-> [a \in Addresses |-> acc[a].data.balance],
     closed |-> {}]

\* Every vault is allocated and never initialized, or the vault of user 1 has
\* been initialized and funded.
InitLedger ==
    /\ \E funded \in {{}, {VaultOf(1)}} : \E b \in InitialBalances :
          accounts = [a \in Addresses |->
                        IF a \in Users THEN UserAccount
                        ELSE IF a \in funded THEN FundedVault(OwnerOf(a), b)
                        ELSE FreshVault]
    /\ stack = <<>>
    /\ result = NoResult
    /\ totals = TotalsAt(accounts)
    /\ saved = [accounts |-> accounts, totals |-> totals]
    /\ txs = 0

InitReentrancy == prog = "reentrancy_secure" /\ InitLedger

NextReentrancy ==
    \/ \E ix \in Instructions : process_instruction_rejects(ix)
    \/ \E ix \in Instructions : process_initialize(ix)
    \/ \E ix \in Instructions : process_deposit(ix)
    \/ \E ix \in Instructions : process_withdraw(ix)
    \/ TransferApplies
    \/ CpiFails
    \/ deposit_returns
    \/ withdraw_returns

SpecReentrancy == InitReentrancy /\ [][NextReentrancy]_vars

InitArithmetic == prog = "arithmetic_secure" /\ InitLedger

NextArithmetic ==
    \/ \E ix \in Instructions : process_instruction_rejects(ix)
    \/ \E ix \in Instructions : process_initialize_arith(ix)
    \/ \E ix \in Instructions : process_deposit_arith(ix)
    \/ \E ix \in Instructions : process_withdraw_arith(ix)
    \/ TransferApplies
    \/ CpiFails
    \/ deposit_returns
    \/ withdraw_returns

SpecArithmetic == InitArithmetic /\ [][NextArithmetic]_vars

InitPda == prog = "pda_secure" /\ InitLedger

NextPda ==
    \/ \E ix \in Instructions : process_instruction_rejects(ix)
    \/ \E ix \in Instructions : process_initialize_pda(ix)
    \/ \E ix \in Instructions : process_deposit_pda(ix)
    \/ \E ix \in Instructions : process_withdraw_pda(ix)
    \/ TransferApplies
    \/ CpiFails
    \/ deposit_returns
    \/ withdraw_returns

SpecPda == InitPda /\ [][NextPda]_vars

InitSigner == prog = "signer_secure" /\ InitLedger

NextSigner ==
    \/ \E ix \in Instructions : process_instruction_rejects(ix)
    \/ \E ix \in Instructions : process_initialize_signer(ix)
    \/ \E ix \in Instructions : process_deposit_signer(ix)
    \/ \E ix \in Instructions : process_withdraw_signer(ix)
    \/ TransferApplies
    \/ CpiFails
    \/ deposit_returns
    \/ withdraw_returns

SpecSigner == InitSigner /\ [][NextSigner]_vars

\* the secure vaults that keep a recorded balance, each deployed on its own ledger
InitBalance == prog \in {"reentrancy_secure", "arithmetic_secure"} /\ InitLedger

NextBalance ==
    \/ prog = "reentrancy_secure" /\ NextReentrancy
    \/ prog = "arithmetic_secure" /\ NextArithmetic

SpecBalance == InitBalance /\ [][NextBalance]_vars

InitClosure == prog = "closure_secure" /\ InitLedger

NextClosure ==
    \/ \E ix \in Instructions : process_instruction_rejects(ix)
    \/ \E ix \in Instructions : process_initialize_close(ix)
    \/ \E ix \in Instructions : process_deposit_close(ix)
    \/ \E ix \in Instructions : process_close(ix)
    \/ TransferApplies
    \/ CpiFails
    \/ AssignApplies
    \/ deposit_returns
    \/ close_assigns
    \/ close_returns
    \/ PurgeEmpty

SpecClosure == InitClosure /\ [][NextClosure]_vars

\* a vault account created by the Anchor program for user u, recording b
AnchorVault(u, b) ==
    [lamports |-> RENT + b, owner |-> PROGRAM_ID,
     data |-> [len |-> VaultSpace, owner |-> u, balance |-> b]]

\* No vault account exists yet, or the vault of user 1 has been created and funded.
InitAnchor ==
    /\ prog = "signer_anchor_secure"
    /\ \E funded \in {{}, {VaultOf(1)}} : \E b \in InitialBalances :
          accounts = [a \in Addresses |->
                        IF a \in Users THEN UserAccount
                        ELSE IF a \in funded THEN AnchorVault(OwnerOf(a), b)
                        ELSE Dropped]
    /\ stack = <<>>
    /\ result = NoResult
    /\ totals = TotalsAt(accounts)
    /\ saved = [accounts |-> accounts, totals |-> totals]
    /\ txs = 0

NextAnchor ==
    \/ \E ix \in Instructions : dispatch_rejects(ix)
    \/ \E ix \in Instructions : initialize(ix)
    \/ \E ix \in Instructions : deposit(ix)
    \/ \E ix \in Instructions : withdraw(ix)
    \/ TransferApplies
    \/ CpiFails
    \/ deposit_exit

SpecAnchor == InitAnchor /\ [][NextAnchor]_vars

----------------------------------------------------------------------------
\* 05-unsafe-account-closure, Anchor secure variant: initialize and deposit
\* are those of the Anchor vault above, the third method is close_vault.

\* the generated entry point finds no method for the data, or cannot read the
\* amount of deposit
close_dispatch_rejects(ix) ==
    /\ CanInvoke
    /\ IF ix.ilen = 0 \/ ix.tag \notin {0, 1, 2}
       THEN Abort(Outcome("dispatch", ix, "InstructionFallbackNotFound", -1))
       ELSE /\ ix.tag = 1
            /\ ix.ilen < 9
            /\ Abort(Outcome("dispatch", ix, "InstructionDidNotDeserialize", -1))

close_initialize(ix) == initialize(ix)

close_deposit(ix) == deposit(ix)

close_deposit_exit == deposit_exit

\* close = user: when the handler exits, every lamport of the vault goes to the
\* user and the account is handed back to the system program with no data
close_vault(ix) ==
    LET vault == accounts[ix.vault]
    IN  /\ CanInvoke
        /\ ix.ilen > 0 /\ ix.tag = 2
        /\ IF ix.nacc < 2
           THEN Abort(Outcome("close", ix, "AccountNotEnoughKeys", -1))
           ELSE IF ~ix.signer
           THEN Abort(Outcome("close", ix, "AccountNotSigner", -1))
           ELSE IF ~IsVault(ix.vault)
           THEN Abort(Outcome("close", ix, "AccountNotInitialized", -1))
           ELSE IF ~SeedsMatch(ix.vault)
           THEN Abort(Outcome("close", ix, "ConstraintSeeds", -1))
           ELSE IF vault.data.owner # ix.user
           THEN Abort(Outcome("close", ix, "Unauthorized", -1))
           ELSE Commit(Outcome("close", ix, "Ok", -1),
                       [Move(accounts, ix.vault, ix.user, vault.lamports) EXCEPT
                           ![ix.vault].owner = SYSTEM_PROGRAM_ID,
                           ![ix.vault].data = NoData],
                       [totals EXCEPT !.closed = @ \cup {ix.vault}])

InitAnchorClosure ==
    /\ prog = "closure_anchor_secure"
    /\ \E funded \in {{}, {VaultOf(1)}} : \E b \in InitialBalances :
          accounts = [a \in Addresses |->
                        IF a \in Users THEN UserAccount
                        ELSE IF a \in funded THEN AnchorVault(OwnerOf(a), b)
                        ELSE Dropped]
    /\ stack = <<>>
    /\ result = NoResult
    /\ totals = TotalsAt(accounts)
    /\ saved = [accounts |-> accounts, totals |-> totals]
    /\ txs = 0

NextAnchorClosure ==
    \/ \E ix \in Instructions : close_dispatch_rejects(ix)
    \/ \E ix \in Instructions : close_initialize(ix)
    \/ \E ix \in Instructions : close_deposit(ix)
    \/ \E ix \in Instructions : close_vault(ix)
    \/ TransferApplies
    \/ CpiFails
    \/ close_deposit_exit

SpecAnchorClosure == InitAnchorClosure /\ [][NextAnchorClosure]_vars

\* the two secure closure programs, each deployed on its own ledger
InitClose == InitClosure \/ InitAnchorClosure

NextClose ==
    \/ prog = "closure_secure" /\ NextClosure
    \/ prog = "closure_anchor_secure" /\ NextAnchorClosure

SpecClose == InitClose /\ [][NextClose]_vars

----------------------------------------------------------------------------
\* Properties of the secure reentrancy vault (04-reentrancy-risk)

\* a withdraw frame entered from inside the in-flight transfer of the withdraw
\* frame below it, on the same vault, before any other re-entrant call finished
NestedWithdraw(i) ==
    /\ i > 1
    /\ stack[i].op = "withdraw"
    /\ stack[i - 1].op = "withdraw"
    /\ stack[i].ix.vault = stack[i - 1].ix.vault
    /\ stack[i].first

\* the last finished invocation was such a re-entrant withdraw, and it got as
\* far as reading the balance
NestedWithdrawResult ==
    /\ result.op = "withdraw"
    /\ result.depth > 1
    /\ result.parent = "withdraw"
    /\ result.pvault = result.ix.vault
    /\ result.first
    /\ result.seen >= 0

ScenarioWithdraw ==
    /\ Depth >= 1
    /\ stack[1].op = "withdraw"
    /\ stack[1].balance = 1000
    /\ stack[1].ix.amount = 500

InFlightDeposits(v) ==
    LET S == {i \in 1..Depth : stack[i].op = "deposit" /\ stack[i].ix.vault = v}
        Sum[k \in 0..Depth] ==
            IF k = 0 THEN 0
            ELSE Sum[k - 1] + (IF k \in S THEN stack[k].ix.amount ELSE 0)
    IN  Sum[Depth]

\* C3: the total paid out by successful withdraws never exceeds the initial
\* recorded balance plus the total of successful deposits, under every sequence
\* and nesting of calls; while calls are in flight, a deposit counts from the
\* moment it has credited the balance.
C3_NoDoubleWithdraw ==
    \A v \in Vaults :
        /\ totals.paid[v] + accounts[v].data.balance
              <= totals.initial[v] + totals.deposited[v] + InFlightDeposits(v)
        /\ Depth = 0 => totals.paid[v] <= totals.initial[v] + totals.deposited[v]

C3_Witness ==
    /\ Depth = 0
    /\ result.op = "withdraw" /\ result.status = "Ok" /\ result.children = 1
    /\ result.ix.amount = 500
    /\ totals.paid[VaultOf(1)] = 1000
    /\ totals.initial[VaultOf(1)] = 1000

----------------------------------------------------------------------------
\* Properties of the secure vaults that keep a recorded balance (03, 04)

\* C4: when balance + amount exceeds the range of the balance word, deposit
\* fails with ArithmeticOverflow, stores no new balance and performs no
\* transfer; otherwise the balance it stores is exactly balance + amount.
C4_CheckedDeposit ==
    /\ \A i \in 1..Depth : stack[i].op = "deposit" =>
          /\ stack[i].new_balance = stack[i].balance + stack[i].ix.amount
          /\ stack[i].new_balance <= U64_MAX
    /\ (Depth > 0 /\ Top.op = "deposit" /\ Top.children = 0) =>
          accounts[Top.ix.vault].data.balance = Top.balance + Top.ix.amount
    /\ (result.op = "deposit" /\ result.seen >= 0
            /\ result.seen + result.ix.amount > U64_MAX) =>
          /\ result.status = "ArithmeticOverflow"
          /\ Depth = 0
          /\ accounts = saved.accounts
    /\ result.status = "ArithmeticOverflow" =>
          /\ result.op = "deposit"
          /\ result.seen + result.ix.amount > U64_MAX

C4_Witness ==
    /\ result.op = "deposit"
    /\ result.status = "ArithmeticOverflow"
    /\ result.seen = 1000
    /\ result.ix.amount = 500
    /\ accounts[result.ix.vault].data.balance = 1000

----------------------------------------------------------------------------
\* Properties of the secure vaults on withdraw beyond the balance (03, 04, Anchor 01)

\* C5: for every amount greater than the stored balance, withdraw fails with
\* InsufficientFunds, leaves the stored balance unchanged and performs no
\* transfer; the stored balance is never negative or wrapped.
C5_WithdrawBeyondBalance ==
    /\ (result.op = "withdraw" /\ result.seen >= 0 /\ result.ix.amount > result.seen) =>
          /\ result.status = "InsufficientFunds"
          /\ Depth = 0
          /\ accounts = saved.accounts
    /\ \A i \in 1..Depth : stack[i].op = "withdraw" =>
          stack[i].ix.amount <= stack[i].balance
    /\ \A v \in Vaults : accounts[v].data.balance \in 0..U64_MAX

\* withdraw beyond the balance was tried, by the owner, on a funded vault
C5_Witness ==
    /\ result.op = "withdraw"
    /\ result.seen = 500
    /\ result.ix.amount = 1000
    /\ result.ix.signer
    /\ result.status # "Ok"
    /\ accounts[result.ix.vault].data.balance = result.seen

----------------------------------------------------------------------------
\* Properties of the secure PDA-validation vault (02)

\* the last finished invocation was handed a vault handle that is not the
\* address derived from its user handle
ForeignVaultResult ==
    /\ result.op \in {"initialize", "deposit", "withdraw"}
    /\ result.ix.nacc = 3 /\ result.ix.ilen = 9
    /\ result.ix.vault # VaultOf(result.ix.user)

\* C6 as stated: every operation handed a vault handle that is not the address
\* derived from the caller is rejected with InvalidSeeds.
C6_ForeignVaultAlwaysInvalidSeeds ==
    ForeignVaultResult => result.status = "InvalidSeeds"

\* C6 amended: every operation handed a vault handle that is not the address
\* derived from the caller is rejected, with InvalidSeeds when the caller handle
\* is a signer and with MissingRequiredSignature when it is not (the signer
\* check comes first); either way it reaches no transfer and writes no storage.
C6_ForeignVaultRejected ==
    /\ ForeignVaultResult =>
          /\ result.ix.signer => result.status = "InvalidSeeds"
          /\ ~result.ix.signer => result.status = "MissingRequiredSignature"
          /\ Depth = 0
          /\ accounts = saved.accounts
    /\ \A i \in 1..Depth : stack[i].ix.vault = VaultOf(stack[i].ix.user)

C6_Witness ==
    /\ ForeignVaultResult
    /\ result.op = "withdraw"
    /\ result.ix.signer
    /\ result.ix.amount = 500
    /\ result.status = "InvalidSeeds"
    /\ accounts[result.ix.vault].lamports >= 500

\* C7: value leaves a vault only through the transfer of a withdraw whose user
\* handle is a signer and derives that vault, and all of it goes to that user
\* (a discarded transaction puts back what its deposits had moved in).
C7_OnlyOwnerWithdraws ==
    [][\A v \in Vaults :
          accounts'[v].lamports < accounts[v].lamports =>
             \/ /\ stack' = <<>>
                /\ accounts' = saved.accounts
                /\ result'.status # "Ok"
             \/ /\ Depth > 0
                /\ Top.op = "withdraw"
                /\ Top.pc = "cpi"
                /\ Top.ix.signer
                /\ Top.ix.vault = v
                /\ VaultOf(Top.ix.user) = v
                /\ accounts'[Top.ix.user].lamports - accounts[Top.ix.user].lamports
                      = accounts[v].lamports - accounts'[v].lamports
                /\ \A a \in Addresses \ {v, Top.ix.user} :
                      accounts'[a].lamports = accounts[a].lamports]_vars

C7_Witness ==
    /\ Depth > 0
    /\ Top.op = "withdraw"
    /\ Top.pc = "moved"
    /\ Top.ix.amount = 500
    /\ accounts[Top.ix.vault].lamports = saved.accounts[Top.ix.vault].lamports - 500
    /\ accounts[Top.ix.user].lamports = saved.accounts[Top.ix.user].lamports + 500

----------------------------------------------------------------------------
\* Properties of the secure signer-check vault (01)

\* C8: initialize, deposit and withdraw invoked with a user handle that is not a
\* signer fail with MissingRequiredSignature and reach no transfer, whatever the
\* vault address and the amount.
C8_UnsignedRejected ==
    /\ (/\ result.op \in {"initialize", "deposit", "withdraw"}
        /\ result.ix.nacc = 3 /\ result.ix.ilen = 9
        /\ ~result.ix.signer)
       => /\ result.status = "MissingRequiredSignature"
          /\ Depth = 0
          /\ accounts = saved.accounts
    /\ \A i \in 1..Depth : stack[i].ix.signer

C8_Witness ==
    /\ result.op = "withdraw"
    /\ ~result.ix.signer
    /\ result.ix.vault = VaultOf(result.ix.user)
    /\ result.ix.amount = 500
    /\ result.status = "MissingRequiredSignature"
    /\ accounts[result.ix.vault].lamports >= 500

----------------------------------------------------------------------------
\* Properties of the secure closure program (05)

AllZero(vault_data) ==
    vault_data.owner = SYSTEM_PROGRAM_ID /\ vault_data.balance = 0

\* C9: once a close of a vault has returned Ok, every later initialize, deposit
\* or close on the same derived address fails.
C9_NoOperationAfterClose ==
    (/\ result.op \in {"initialize", "deposit", "close"}
     /\ result.closed
     /\ result.ix.vault = VaultOf(result.ix.user))
    => result.status # "Ok"

\* a vault was closed, and a later operation on it was rejected
C9_Witness ==
    /\ result.op \in {"initialize", "deposit", "close"}
    /\ result.closed
    /\ result.ix.signer
    /\ result.ix.vault = VaultOf(result.ix.user)
    /\ result.status # "Ok"

\* C10: when close invokes the transfer of the residual value, every byte of the
\* record is zero and no lamport has moved yet; this is so whether the transfer
\* then succeeds or fails.
C10_ZeroBeforeTransfer ==
    /\ (Depth > 0 /\ Top.op = "close" /\ Top.pc = "cpi" /\ Top.children = 0) =>
          /\ AllZero(accounts[Top.ix.vault].data)
          /\ Top.cpi.kind = "transfer"
          /\ Top.cpi.lamports = accounts[Top.ix.vault].lamports
    /\ \A i \in 1..Depth : stack[i].op = "close" /\ stack[i].pc = "cpi" =>
          stack[i].cpi.kind = "transfer"

C10_Witness ==
    /\ Depth = 1
    /\ Top.op = "close"
    /\ Top.pc = "cpi"
    /\ Top.children = 0
    /\ saved.accounts[Top.ix.vault].data.balance = 1000
    /\ saved.accounts[Top.ix.vault].data.owner = Top.ix.user
    /\ AllZero(accounts[Top.ix.vault].data)

\* the record is fully closed: every byte zero, no value left, owned by the
\* system program
FullyClosed(v) ==
    /\ AllZero(accounts[v].data)
    /\ accounts[v].lamports = 0
    /\ accounts[v].owner = SYSTEM_PROGRAM_ID

\* C11: after any close attempt made as a top-level instruction, either the
\* record is fully closed and everything the vault held has gone to the caller,
\* or the whole ledger is exactly as it was before the attempt.
C11_NoPartialClose ==
    (Depth = 0 /\ result.op = "close" /\ result.depth = 1) =>
       \/ /\ result.status = "Ok"
          /\ FullyClosed(result.ix.vault)
          /\ accounts[result.ix.vault] # Dropped =>
                accounts[result.ix.user].lamports
                   = saved.accounts[result.ix.user].lamports
                     + saved.accounts[result.ix.vault].lamports
       \/ /\ result.status # "Ok"
          /\ accounts = saved.accounts

\* a close that nothing re-entered has returned Ok on a funded vault
C11_Witness ==
    /\ Depth = 0
    /\ result.op = "close" /\ result.depth = 1 /\ result.status = "Ok"
    /\ result.children = 0
    /\ FullyClosed(result.ix.vault)
    /\ accounts[result.ix.user].lamports = UserLamports + RENT + 1000

----------------------------------------------------------------------------
\* Properties of the two secure closure programs (05, pinocchio and Anchor)

\* the last finished invocation was a close carrying its account handles
CloseResult == result.op = "close" /\ result.ix.nacc >= 2

\* this step is a close that was turned away at its checks
CloseRejected ==
    /\ result'.op = "close"
    /\ result'.ix.nacc >= 2
    /\ result'.depth = Depth + 1
    /\ result'.status # "Ok"
    /\ txs' = txs + 1

\* this step is a close that passed its checks: the pinocchio close has zeroed
\* the record and invoked its transfer, the Anchor close has run its exit step
CloseProceeds ==
    \/ /\ prog = "closure_secure"
       /\ Len(stack') = Depth + 1
       /\ stack'[Depth + 1].op = "close"
    \/ /\ prog = "closure_anchor_secure"
       /\ result'.op = "close" /\ result'.status = "Ok"
       /\ accounts[result'.ix.vault].owner = PROGRAM_ID
       /\ accounts'[result'.ix.vault].owner = SYSTEM_PROGRAM_ID

ClosingIx == IF prog = "closure_secure" THEN stack'[Depth + 1].ix ELSE result'.ix

\* the ledger a failed invocation leaves: the one the transaction started from
LedgerRestored ==
    /\ stack' = <<>>
    /\ accounts' = IF Depth = 0 THEN accounts ELSE saved.accounts

\* C12: close with a caller that is not a signer, a vault address that is not
\* derived from the caller, or a stored owner that differs from the caller fails
\* (MissingRequiredSignature / InvalidSeeds / IllegalOwner in the pinocchio
\* program, AccountNotSigner / Unauthorized in the Anchor program) and leaves the
\* ledger as it was: no byte zeroed, no value moved, no owner reassigned.  A
\* close gets past its checks only with a signer whose derived address is the
\* vault and who is the stored owner.
C12_CloseOnlyAfterVerification ==
    [][/\ CloseProceeds =>
             /\ ClosingIx.signer
             /\ ClosingIx.vault = VaultOf(ClosingIx.user)
             /\ accounts[ClosingIx.vault].data.owner = ClosingIx.user
       /\ CloseRejected =>
             LET ix == result'.ix
                 record == accounts[ix.vault]
                 pinocchio == prog = "closure_secure"
             IN  /\ LedgerRestored
                 /\ ~ix.signer =>
                       result'.status = IF pinocchio THEN "MissingRequiredSignature"
                                        ELSE "AccountNotSigner"
                 /\ ix.signer /\ ix.vault # VaultOf(ix.user) =>
                       IF pinocchio THEN result'.status = "InvalidSeeds"
                       ELSE result'.status \in {"Unauthorized", "AccountNotInitialized"}
                 /\ (/\ ix.signer /\ ix.vault = VaultOf(ix.user)
                     /\ record.data.len >= 32
                     /\ record.data.owner # ix.user) =>
                       IF pinocchio THEN result'.status = "IllegalOwner"
                       ELSE result'.status \in {"Unauthorized", "AccountNotInitialized"}
      ]_vars

\* a signer tried to close the funded vault of another user and was turned away
C12_Witness ==
    /\ CloseResult
    /\ result.ix.signer
    /\ result.ix.vault # VaultOf(result.ix.user)
    /\ result.status \in {"InvalidSeeds", "Unauthorized"}
    /\ accounts[result.ix.vault].data.balance = 1000
    /\ accounts[result.ix.vault].lamports = RENT + 1000
    /\ accounts[result.ix.vault].owner = PROGRAM_ID

----------------------------------------------------------------------------
\* The reentrancy guard of the secure operations that make an external call

\* the invocation that finished last was made from inside the external call of
\* an operation on the same vault
ReenteredSameVault == result.depth > 1 /\ result.pvault = result.ix.vault

\* C19: every secure operation that makes an external call holds the reentrancy
\* guard of its vault from before its effect step until the call has returned:
\* while the call is in flight no other operation on that vault is running, and
\* an invocation made on that vault from inside the call does not return Ok.
C19_GuardHeldDuringExternalCall ==
    /\ \A i, j \in 1..Depth : i < j => stack[i].ix.vault # stack[j].ix.vault
    /\ ReenteredSameVault => result.status # "Ok"

\* a deposit on the vault has stored its effect and made its own external call
\* while the transfer of a withdraw on the same vault is still in flight
C19_Witness ==
    /\ Depth = 2
    /\ stack[1].op = "withdraw" /\ stack[1].pc = "cpi"
    /\ stack[2].op = "deposit" /\ stack[2].pc = "cpi"
    /\ stack[2].ix.vault = stack[1].ix.vault
    /\ accounts[stack[1].ix.vault].data.balance
          = stack[1].new_balance + stack[2].ix.amount

----------------------------------------------------------------------------
\* The recorded balance of the secure reentrancy vault (04-reentrancy-risk)

\* net of the completed deposits and withdraws of vault v since it was created
NetDeposits(v) == totals.initial[v] + totals.deposited[v] - totals.paid[v]

\* C20: whenever no operation is in flight, the stored balance of every vault
\* equals the sum of the completed deposits minus the sum of the completed
\* withdraws since the vault was created, initialize included.
C20_BalanceIsNetOfDeposits ==
    Depth = 0 => \A v \in Vaults : accounts[v].data.balance = NetDeposits(v)

\* initialize has returned Ok on a vault that held deposits: the record says 0,
\* the deposited value is still in the vault account
C20_Witness ==
    /\ Depth = 0
    /\ result.op = "initialize" /\ result.status = "Ok" /\ result.depth = 1
    /\ NetDeposits(result.ix.vault) = 1000
    /\ accounts[result.ix.vault].data.balance = 0
    /\ accounts[result.ix.vault].lamports = RENT + 1000

----------------------------------------------------------------------------
\* The token vault programs (06, 07, 08): their ledger holds wallets, token
\* accounts and vault records; value moves through a Transfer instruction
\* handed to the program named by the token_program handle.

TOKEN_PROGRAM_ID == 200
\* a program of the caller's choosing
OtherProgram == TOKEN_PROGRAM_ID + 1
CalleeHandles == {TOKEN_PROGRAM_ID, OtherProgram}

\* the mint the vault is set up for, and another one
VaultMint == 3
OtherMint == VaultMint + 1

\* the seed list [b"vault"] with nothing after the tag
VAULT_SEED == 9

\* token accounts: of the vault (its authority is the vault address), and of the users
VaultToken == 500
UserToken(u) == 410 + u
OtherMintToken == 420
TokenAccounts == {VaultToken, OtherMintToken} \cup {UserToken(u) : u \in Users}

\* an account that is not the vault, holding bytes chosen by the caller
ForgedVault == 600

Wallet ==
    [owner |-> SYSTEM_PROGRAM_ID, len |-> 0, mint |-> 0, authority |-> 0,
     amount |-> 0, bump |-> 0, locked |-> FALSE, total |-> 0]

\* an account of the token program: mint, owner (authority) and amount
TokenAccount(mint, authority, amount) ==
    [owner |-> TOKEN_PROGRAM_ID, len |-> 165, mint |-> mint,
     authority |-> authority, amount |-> amount, bump |-> 0, locked |-> FALSE,
     total |-> 0]

VaultRecord(owner, len, mint, bump, locked, total) ==
    [owner |-> owner, len |-> len, mint |-> mint, authority |-> 0, amount |-> 0,
     bump |-> bump, locked |-> locked, total |-> total]

TokenInstruction(t, u, s, w, v, vt, ut, tp, a, n, l) ==
    [tag |-> t, user |-> u, signer |-> s, writable |-> w, vault |-> v,
     vault_ta |-> vt, user_ta |-> ut, token_program |-> tp, amount |-> a,
     nacc |-> n, ilen |-> l]

get_token_account_mint(account) ==
    IF account.len < 32 THEN [ok |-> FALSE, val |-> "InvalidAccountData"]
    ELSE [ok |-> TRUE, val |-> account.mint]

\* Transfer (tag 3) of the token interface, addressed to program: the authority
\* is marked as a signer of the inner instruction
TokenTransfer(program, from, to, authority, amount, authorized) ==
    [kind |-> "token_transfer", program |-> program, from |-> from, to |-> to,
     authority |-> authority, lamports |-> amount, authorized |-> authorized]

\* invoke_signed(.., &[[b"vault", seed.., [bump]]]): the runtime grants the
\* signature of the address these seeds derive
SeedsSignFor(seed, bump, account) ==
    create_program_address("vault", seed, bump, PROGRAM_ID) = account

\* A handler that reached its external call stays on the stack while it is in flight.
Invoke(frame, acc) ==
    /\ accounts' = acc
    /\ totals' = totals
    /\ saved' = IF Depth = 0 THEN TxStart ELSE saved
    /\ stack' = Append(stack, frame)
    /\ result' = NoResult
    /\ txs' = txs
    /\ prog' = prog

MoveTokens(acc, from, to, n) ==
    IF from = to THEN acc
    ELSE [acc EXCEPT ![from].amount = @ - n, ![to].amount = @ + n]

\* The token program processes the Transfer.
TokenTransferApplies ==
    /\ Depth > 0
    /\ Top.pc = "cpi"
    /\ Top.cpi.kind = "token_transfer"
    /\ Top.cpi.program = TOKEN_PROGRAM_ID
    /\ LET c == Top.cpi
           source == accounts[c.from]
           destination == accounts[c.to]
       IN  IF ~c.authorized
           THEN Abort(FrameOutcome("PrivilegeEscalation"))
           ELSE IF source.owner # TOKEN_PROGRAM_ID \/ destination.owner # TOKEN_PROGRAM_ID
           THEN Abort(FrameOutcome("IncorrectProgramId"))
           ELSE IF source.amount < c.lamports
           THEN Abort(FrameOutcome("TokenInsufficientFunds"))
           ELSE IF source.mint # destination.mint
           THEN Abort(FrameOutcome("MintMismatch"))
           ELSE IF source.authority # c.authority
           THEN Abort(FrameOutcome("OwnerMismatch"))
           ELSE /\ accounts' = MoveTokens(accounts, c.from, c.to, c.lamports)
                /\ stack' = [stack EXCEPT ![Depth].pc = "moved"]
                /\ UNCHANGED <<prog, result, saved, totals, txs>>

\* The callee is another program.  It returns Ok having moved nothing, or it
\* uses the signature it was handed to move what the source holds to a token
\* account of its choosing.
OtherCalleeRuns ==
    /\ Depth > 0
    /\ Top.pc = "cpi"
    /\ Top.cpi.kind = "token_transfer"
    /\ Top.cpi.program # TOKEN_PROGRAM_ID
    /\ LET c == Top.cpi
           source == accounts[c.from]
       IN  IF ~c.authorized
           THEN Abort(FrameOutcome("PrivilegeEscalation"))
           ELSE \E take \in {0, source.amount} : \E to \in TokenAccounts :
                   /\ take > 0 =>
                         /\ source.owner = TOKEN_PROGRAM_ID
                         /\ source.authority = c.authority
                         /\ accounts[to].mint = source.mint
                         /\ to # c.from
                   /\ take = 0 => to = c.to
                   /\ accounts' = MoveTokens(accounts, c.from, to, take)
                   /\ stack' = [stack EXCEPT ![Depth].pc = "moved"]
                   /\ UNCHANGED <<prog, result, saved, totals, txs>>

TokenTotals ==
    [paid |-> [a \in TokenAccounts |-> 0],
     deposited |-> [a \in TokenAccounts |-> 0],
     initial |-> [a \in TokenAccounts |-> 0],
     closed |-> {}]

----------------------------------------------------------------------------
\* 07-arbitrary-cpi-validation, secure variants

\* the one vault of the program, derived from [b"vault"]
SwapVault == find_program_address("vault", VAULT_SEED, PROGRAM_ID)

SwapInstructions ==
    {TokenInstruction(0, u, s, w, v, VaultToken, ut, tp, a, n, l) :
        u \in {1}, s \in BOOLEAN, w \in BOOLEAN, v \in {SwapVault.pda, ForgedVault},
        ut \in {UserToken(1), OtherMintToken}, tp \in CalleeHandles,
        a \in {500, 1000}, n \in {4, 5}, l \in {0, 8}}

get_swap_vault_bump(vault) ==
    IF vault.len < 9 THEN [ok |-> FALSE, val |-> "InvalidAccountData"]
    ELSE [ok |-> TRUE, val |-> vault.bump]

swap_process_instruction_rejects(ix) ==
    /\ CanInvoke
    /\ ix.ilen < 8
    /\ Abort(Outcome("dispatch", ix, "InvalidInstructionData", -1))

\* mutant: the callee handle is used as it comes
callee_unchecked(ix) == TRUE

callee_is_token_program(ix) == ix.token_program = TOKEN_PROGRAM_ID

execute_swap(ix) ==
    LET vault_ta_mint == get_token_account_mint(accounts[ix.vault_ta])
        user_ta_mint == get_token_account_mint(accounts[ix.user_ta])
        bump == get_swap_vault_bump(accounts[ix.vault])
    IN  /\ CanInvoke
        /\ ix.ilen >= 8
        /\ IF ix.nacc < 5
           THEN Abort(Outcome("execute_swap", ix, "NotEnoughAccountKeys", -1))
           ELSE IF ~ix.signer
           THEN Abort(Outcome("execute_swap", ix, "MissingRequiredSignature", -1))
           ELSE IF ~ix.writable
           THEN Abort(Outcome("execute_swap", ix, "InvalidAccountData", -1))
           ELSE IF ~callee_is_token_program(ix)
           THEN Abort(Outcome("execute_swap", ix, "Custom(1)", -1))
           ELSE IF ~vault_ta_mint.ok \/ ~user_ta_mint.ok
           THEN Abort(Outcome("execute_swap", ix, "InvalidAccountData", -1))
           ELSE IF vault_ta_mint.val # user_ta_mint.val
           THEN Abort(Outcome("execute_swap", ix, "Custom(2)", -1))
           ELSE IF ~bump.ok
           THEN Abort(Outcome("execute_swap", ix, "InvalidAccountData", -1))
           ELSE Invoke(Frame("execute_swap", ix, -1, -1, bump.val,
                             TokenTransfer(ix.token_program, ix.vault_ta, ix.user_ta,
                                           ix.vault, ix.amount,
                                           SeedsSignFor(VAULT_SEED, bump.val, ix.vault))),
                       accounts)

\* the transfer has returned Ok
swap_returns ==
    /\ Depth > 0
    /\ Top.op = "execute_swap"
    /\ Top.pc = "moved"
    /\ Returned([totals EXCEPT !.paid[Top.ix.vault_ta] = @ + Top.ix.amount])

\* Anchor: the accounts are read in the order of the ExecuteSwap struct, then
\* their constraints are checked; transfer is invoked with no signer seeds.
anchor_execute_swap(ix) ==
    LET vault == accounts[ix.vault]
        vault_ta == accounts[ix.vault_ta]
        user_ta == accounts[ix.user_ta]
    IN  /\ CanInvoke
        /\ IF ix.ilen < 8
           THEN Abort(Outcome("dispatch", ix, "InstructionDidNotDeserialize", -1))
           ELSE IF ix.nacc < 5
           THEN Abort(Outcome("execute_swap", ix, "AccountNotEnoughKeys", -1))
           ELSE IF ~ix.signer
           THEN Abort(Outcome("execute_swap", ix, "AccountNotSigner", -1))
           ELSE IF ~callee_is_token_program(ix)
           THEN Abort(Outcome("execute_swap", ix, "InvalidProgramId", -1))
           ELSE IF vault_ta.owner # TOKEN_PROGRAM_ID \/ user_ta.owner # TOKEN_PROGRAM_ID
           THEN Abort(Outcome("execute_swap", ix, "AccountOwnedByWrongProgram", -1))
           ELSE IF vault.owner # PROGRAM_ID
           THEN Abort(Outcome("execute_swap", ix, "AccountOwnedByWrongProgram", -1))
           ELSE IF ~ix.writable
           THEN Abort(Outcome("execute_swap", ix, "ConstraintMut", -1))
           ELSE IF vault_ta.authority # ix.vault
           THEN Abort(Outcome("execute_swap", ix, "InvalidOwner", -1))
           ELSE IF vault_ta.mint # user_ta.mint
           THEN Abort(Outcome("execute_swap", ix, "InvalidMint", -1))
           ELSE IF ~SeedsSignFor(VAULT_SEED, vault.bump, ix.vault)
           THEN Abort(Outcome("execute_swap", ix, "ConstraintSeeds", -1))
           ELSE Invoke(Frame("execute_swap", ix, -1, -1, vault.bump,
                             TokenTransfer(ix.token_program, ix.vault_ta, ix.user_ta,
                                           ix.vault, ix.amount, FALSE)),
                       accounts)

\* the vault record, the vault's token account holding 1000 of the vault mint,
\* the users' token accounts, and an account the caller filled with a bump
SwapLedger(vault_len) ==
    (SwapVault.pda :> VaultRecord(PROGRAM_ID, vault_len, 0, SwapVault.bump, FALSE, 0))
    @@ (ForgedVault :> VaultRecord(OtherProgram, vault_len, 0, SwapVault.bump, FALSE, 0))
    @@ (VaultToken :> TokenAccount(VaultMint, SwapVault.pda, 1000))
    @@ (OtherMintToken :> TokenAccount(OtherMint, 2, 0))
    @@ [a \in {UserToken(u) : u \in Users} |-> TokenAccount(VaultMint, a - 410, 0)]
    @@ [u \in Users |-> Wallet]

InitSwap ==
    /\ prog \in {"cpi_secure", "cpi_anchor_secure"}
    /\ accounts = SwapLedger(IF prog = "cpi_secure" THEN 9 ELSE 8 + 32 + 1)
    /\ stack = <<>>
    /\ result = NoResult
    /\ totals = TokenTotals
    /\ saved = [accounts |-> accounts, totals |-> totals]
    /\ txs = 0

NextSwapPinocchio ==
    \/ \E ix \in SwapInstructions : swap_process_instruction_rejects(ix)
    \/ \E ix \in SwapInstructions : execute_swap(ix)
    \/ TokenTransferApplies
    \/ CpiFails
    \/ swap_returns

NextSwapAnchor ==
    \/ \E ix \in SwapInstructions : anchor_execute_swap(ix)
    \/ TokenTransferApplies
    \/ CpiFails

NextSwap ==
    \/ prog = "cpi_secure" /\ NextSwapPinocchio
    \/ prog = "cpi_anchor_secure" /\ NextSwapAnchor

SpecSwap == InitSwap /\ [][NextSwap]_vars

----------------------------------------------------------------------------
\* Properties of the secure arbitrary-CPI programs (07)

\* the last finished invocation was an execute_swap, carrying all five handles,
\* whose callee handle is not the token program
WrongCalleeResult ==
    /\ result.op = "execute_swap"
    /\ result.ix.nacc >= 5
    /\ result.ix.token_program # TOKEN_PROGRAM_ID

\* C13 as stated: execute_swap with a callee that is not the token program
\* fails with the invalid-callee error, whatever the amount and the other
\* accounts are.
C13_WrongCalleeAlwaysInvalidCallee ==
    WrongCalleeResult =>
        result.status \in {"Custom(1)", "InvalidProgram", "InvalidProgramId"}

\* C13 amended: execute_swap with a callee that is not the token program always
\* fails before any external call is made and leaves the ledger as it was; the
\* error is the invalid-callee one when the checks that come first pass (the
\* caller signed and, in the pinocchio program, the accounts are writable), and
\* the error of the first failing check otherwise.
C13_WrongCalleeRejected ==
    /\ \A i \in 1..Depth : stack[i].op = "execute_swap" =>
          /\ stack[i].ix.token_program = TOKEN_PROGRAM_ID
          /\ stack[i].cpi.program = TOKEN_PROGRAM_ID
    /\ WrongCalleeResult =>
          /\ Depth = 0
          /\ accounts = saved.accounts
          /\ result.status =
                IF prog = "cpi_secure"
                THEN IF ~result.ix.signer THEN "MissingRequiredSignature"
                     ELSE IF ~result.ix.writable THEN "InvalidAccountData"
                     ELSE "Custom(1)"
                ELSE IF ~result.ix.signer THEN "AccountNotSigner"
                     ELSE "InvalidProgramId"

\* a signed execute_swap naming another program as callee was turned away with
\* the invalid-callee error, the vault's tokens untouched
C13_Witness ==
    /\ WrongCalleeResult
    /\ result.ix.signer
    /\ result.status \in {"Custom(1)", "InvalidProgramId"}
    /\ result.ix.vault = SwapVault.pda
    /\ accounts[VaultToken].amount = 1000

----------------------------------------------------------------------------
\* 06-missing-mint-validation, secure variant

\* the vault of the mint, derived from [b"vault", mint]
MintVault == find_program_address("vault", VaultMint, PROGRAM_ID)

\* deposit and withdraw with all five handles, writable, and the amount
MintWellFormed ==
    {TokenInstruction(t, 1, s, TRUE, v, vt, ut, tp, 500, 5, 9) :
        t \in {1, 2}, s \in BOOLEAN, v \in {MintVault.pda, ForgedVault},
        vt \in {VaultToken, OtherMintToken, UserToken(1)},
        ut \in {UserToken(2), OtherMintToken}, tp \in CalleeHandles}

\* the handles of the vault with any tag, read-only accounts, short data, short
\* handle lists
MintMalformed ==
    {TokenInstruction(t, 1, TRUE, w, MintVault.pda, VaultToken, UserToken(2),
                      TOKEN_PROGRAM_ID, 1000, n, l) :
        t \in {0, 1, 2, 3}, w \in BOOLEAN, n \in {3, 4, 5}, l \in {0, 9}}

MintInstructions == MintWellFormed \cup MintMalformed

get_vault_mint(vault) ==
    IF vault.len < 40 THEN [ok |-> FALSE, val |-> "InvalidAccountData"]
    ELSE [ok |-> TRUE, val |-> vault.mint]

get_vault_bump(vault) ==
    IF vault.len < 41 THEN [ok |-> FALSE, val |-> "InvalidAccountData"]
    ELSE [ok |-> TRUE, val |-> vault.bump]

mint_process_instruction_rejects(ix) ==
    /\ CanInvoke
    /\ ix.ilen < 9 \/ ix.tag \notin {0, 1, 2}
    /\ Abort(Outcome("dispatch", ix, "InvalidInstructionData", -1))

initialize_vault(ix) ==
    /\ CanInvoke
    /\ ix.ilen >= 9 /\ ix.tag = 0
    /\ IF ix.nacc < 4
       THEN Abort(Outcome("initialize_vault", ix, "NotEnoughAccountKeys", -1))
       ELSE IF ~ix.signer \/ ~ix.writable
       THEN Abort(Outcome("initialize_vault", ix, "InvalidAccountData", -1))
       ELSE Commit(Outcome("initialize_vault", ix, "Ok", -1), accounts, totals)

\* mutant: any mint is taken for the vault's
mint_differs_never(account_mint, vault_mint) == FALSE

mint_differs(account_mint, vault_mint) == account_mint # vault_mint

mint_deposit(ix) ==
    LET vault_mint == get_vault_mint(accounts[ix.vault])
        vault_ta_mint == get_token_account_mint(accounts[ix.vault_ta])
        user_ta_mint == get_token_account_mint(accounts[ix.user_ta])
    IN  /\ CanInvoke
        /\ ix.ilen >= 9 /\ ix.tag = 1
        /\ IF ix.nacc < 5
           THEN Abort(Outcome("deposit", ix, "NotEnoughAccountKeys", -1))
           ELSE IF ~ix.signer
           THEN Abort(Outcome("deposit", ix, "MissingRequiredSignature", -1))
           ELSE IF ~ix.writable
           THEN Abort(Outcome("deposit", ix, "InvalidAccountData", -1))
           ELSE IF ~vault_mint.ok \/ ~vault_ta_mint.ok
           THEN Abort(Outcome("deposit", ix, "InvalidAccountData", -1))
           ELSE IF mint_differs(vault_ta_mint.val, vault_mint.val)
           THEN Abort(Outcome("deposit", ix, "Custom(0)", vault_mint.val))
           ELSE IF ~user_ta_mint.ok
           THEN Abort(Outcome("deposit", ix, "InvalidAccountData", -1))
           ELSE IF mint_differs(user_ta_mint.val, vault_mint.val)
           THEN Abort(Outcome("deposit", ix, "Custom(0)", vault_mint.val))
           ELSE Invoke(Frame("deposit", ix, vault_mint.val, -1, 0,
                             TokenTransfer(ix.token_program, ix.vault_ta, ix.user_ta,
                                           ix.user, ix.amount, ix.signer)),
                       accounts)

mint_withdraw(ix) ==
    LET vault_mint == get_vault_mint(accounts[ix.vault])
        vault_ta_mint == get_token_account_mint(accounts[ix.vault_ta])
        user_ta_mint == get_token_account_mint(accounts[ix.user_ta])
        bump == get_vault_bump(accounts[ix.vault])
    IN  /\ CanInvoke
        /\ ix.ilen >= 9 /\ ix.tag = 2
        /\ IF ix.nacc < 5
           THEN Abort(Outcome("withdraw", ix, "NotEnoughAccountKeys", -1))
           ELSE IF ~ix.signer
           THEN Abort(Outcome("withdraw", ix, "MissingRequiredSignature", -1))
           ELSE IF ~ix.writable
           THEN Abort(Outcome("withdraw", ix, "InvalidAccountData", -1))
           ELSE IF ~vault_mint.ok \/ ~vault_ta_mint.ok
           THEN Abort(Outcome("withdraw", ix, "InvalidAccountData", -1))
           ELSE IF mint_differs(vault_ta_mint.val, vault_mint.val)
           THEN Abort(Outcome("withdraw", ix, "Custom(0)", vault_mint.val))
           ELSE IF ~user_ta_mint.ok
           THEN Abort(Outcome("withdraw", ix, "InvalidAccountData", -1))
           ELSE IF mint_differs(user_ta_mint.val, vault_mint.val)
           THEN Abort(Outcome("withdraw", ix, "Custom(0)", vault_mint.val))
           ELSE IF ~bump.ok
           THEN Abort(Outcome("withdraw", ix, "InvalidAccountData", -1))
           ELSE Invoke(Frame("withdraw", ix, vault_mint.val, -1, bump.val,
                             TokenTransfer(ix.token_program, ix.vault_ta, ix.user_ta,
                                           ix.vault, ix.amount,
                                           SeedsSignFor(vault_mint.val, bump.val,
                                                        ix.vault))),
                       accounts)

\* the external call has returned Ok
mint_transfer_returns ==
    /\ Depth > 0
    /\ Top.op \in {"deposit", "withdraw"}
    /\ Top.pc = "moved"
    /\ Returned([totals EXCEPT !.paid[Top.ix.vault_ta] = @ + Top.ix.amount])

\* the vault record of the mint, an account the caller filled with another mint,
\* the vault's token account holding 1000, and token accounts of the users
MintLedger ==
    (MintVault.pda :> VaultRecord(PROGRAM_ID, 41, VaultMint, MintVault.bump, FALSE, 0))
    @@ (ForgedVault :> VaultRecord(OtherProgram, 41, OtherMint, MintVault.bump, FALSE, 0))
    @@ (VaultToken :> TokenAccount(VaultMint, MintVault.pda, 1000))
    @@ (OtherMintToken :> TokenAccount(OtherMint, 2, 0))
    @@ (UserToken(1) :> TokenAccount(VaultMint, 1, 1000))
    @@ (UserToken(2) :> TokenAccount(VaultMint, 2, 0))
    @@ [u \in Users |-> Wallet]

InitMint ==
    /\ prog = "mint_secure"
    /\ accounts = MintLedger
    /\ stack = <<>>
    /\ result = NoResult
    /\ totals = TokenTotals
    /\ saved = [accounts |-> accounts, totals |-> totals]
    /\ txs = 0

NextMint ==
    \/ \E ix \in MintInstructions : mint_process_instruction_rejects(ix)
    \/ \E ix \in MintInstructions : initialize_vault(ix)
    \/ \E ix \in MintInstructions : mint_deposit(ix)
    \/ \E ix \in MintInstructions : mint_withdraw(ix)
    \/ TokenTransferApplies
    \/ OtherCalleeRuns
    \/ CpiFails
    \/ mint_transfer_returns

SpecMint == InitMint /\ [][NextMint]_vars

----------------------------------------------------------------------------
\* Properties of the secure mint-validation vault (06)

\* C14: an external call that carries the vault's derived-address signature is
\* made to the token program only: the callee named by the caller's handle has
\* been checked against the allow-list before the call.
C14_DelegatedCallOnlyToAllowedCallee ==
    \A i \in 1..Depth :
        (stack[i].cpi.authority = stack[i].ix.vault /\ stack[i].cpi.authorized) =>
            stack[i].cpi.program = TOKEN_PROGRAM_ID

\* withdraw of 500 named another program as callee and returned Ok; that
\* program, holding the vault's signature, emptied the vault's token account
C14_Witness ==
    /\ Depth = 0
    /\ result.op = "withdraw" /\ result.status = "Ok"
    /\ result.ix.token_program = OtherProgram
    /\ result.ix.vault = MintVault.pda
    /\ result.ix.amount = 500
    /\ accounts[VaultToken].amount = 0

\* the vault token account or the user token account of instruction ix has a
\* mint other than the one stored in the vault record ix names
MintMismatch(ix) ==
    \/ accounts[ix.vault_ta].mint # accounts[ix.vault].mint
    \/ accounts[ix.user_ta].mint # accounts[ix.vault].mint

\* the last finished invocation was a deposit or withdraw, carrying all five
\* handles, with a mint mismatch
MintMismatchResult ==
    /\ result.op \in {"deposit", "withdraw"}
    /\ result.ix.nacc >= 5
    /\ MintMismatch(result.ix)

\* C15 as stated: deposit and withdraw fail with the invalid-asset error
\* whenever one of the two token accounts has a mint other than the stored one.
C15_MintMismatchAlwaysInvalidAsset ==
    MintMismatchResult => result.status = "Custom(0)"

\* C15 amended: with a mint mismatch deposit and withdraw always fail before
\* any external call is attempted and leave the ledger as it was; the error is
\* the invalid-asset one when the caller signed and the accounts are writable,
\* and the error of the signer or writable check, which come first, otherwise.
C15_MintMismatchRejected ==
    /\ \A i \in 1..Depth : ~MintMismatch(stack[i].ix)
    /\ MintMismatchResult =>
          /\ Depth = 0
          /\ accounts = saved.accounts
          /\ result.status =
                IF ~result.ix.signer THEN "MissingRequiredSignature"
                ELSE IF ~result.ix.writable THEN "InvalidAccountData"
                ELSE "Custom(0)"

\* a signed deposit into the vault from a token account of another mint was
\* turned away with the invalid-asset error
C15_Witness ==
    /\ MintMismatchResult
    /\ result.op = "deposit"
    /\ result.ix.signer
    /\ result.ix.vault = MintVault.pda
    /\ result.ix.vault_ta = VaultToken
    /\ result.ix.user_ta = OtherMintToken
    /\ result.status = "Custom(0)"
    /\ accounts[VaultToken].amount = 1000

\* C16: the stored mint and bump are read only from a vault handle whose
\* address has been verified: every operation that got as far as reading the
\* record names the derived address of the vault.
C16_VaultVerifiedBeforeRead ==
    /\ \A i \in 1..Depth : stack[i].ix.vault = MintVault.pda
    /\ (result.op \in {"deposit", "withdraw"} /\ result.seen # -1) =>
          result.ix.vault = MintVault.pda

\* deposit read the mint from an account that is not the vault, found the token
\* accounts of that mint acceptable, and made its external call
C16_Witness ==
    /\ Depth = 1
    /\ Top.op = "deposit" /\ Top.pc = "cpi"
    /\ Top.ix.vault = ForgedVault
    /\ Top.balance = OtherMint
    /\ accounts[Top.ix.vault_ta].mint = OtherMint

----------------------------------------------------------------------------
\* 08-toctou-race-condition, secure variants.  The vault record holds the
\* total of deposits, the bump and the locked flag of the reentrancy guard.

\* the one vault of the program, derived from [b"vault"]
ToctouVault == find_program_address("vault", VAULT_SEED, PROGRAM_ID)

ToctouInstructions ==
    {TokenInstruction(0, 1, s, w, v, vt, UserToken(1), tp, a, n, l) :
        s \in BOOLEAN, w \in BOOLEAN, v \in {ToctouVault.pda, ForgedVault},
        vt \in {VaultToken, OtherMintToken}, tp \in CalleeHandles,
        a \in {500, 1000}, n \in {4, 5}, l \in {0, 8}}

\* bytes 12..20 of a token account lie inside its mint address (bytes 0..32),
\* not in its amount (bytes 64..72): the word read there is fixed by the mint
MintWord(mint) == IF mint = VaultMint THEN U64_MAX ELSE 0

get_token_account_balance(account) ==
    IF account.len < 64 THEN [ok |-> FALSE, val |-> "InvalidAccountData"]
    ELSE [ok |-> TRUE, val |-> MintWord(account.mint)]

get_toctou_vault_bump(vault) ==
    IF vault.len < 17 THEN [ok |-> FALSE, val |-> "InvalidAccountData"]
    ELSE [ok |-> TRUE, val |-> vault.bump]

get_vault_locked(vault) ==
    IF vault.len < 18 THEN [ok |-> FALSE, val |-> "InvalidAccountData"]
    ELSE [ok |-> TRUE, val |-> vault.locked]

\* mutant: the flag is stored when it is set and never cleared
set_vault_locked_sticky(vault, locked) == [vault EXCEPT !.locked = @ \/ locked]

\* returns Ok(()) and leaves the account data as it is
set_vault_locked(vault, locked) == vault

\* returns Ok(()) without calling its closure
update_vault_balance(vault, amount) == vault

toctou_process_instruction_rejects(ix) ==
    /\ CanInvoke
    /\ ix.ilen < 8
    /\ Abort(Outcome("dispatch", ix, "InvalidInstructionData", -1))

toctou_withdraw(ix) ==
    LET vault == accounts[ix.vault]
        is_locked == get_vault_locked(vault)
        acquired == set_vault_locked(vault, TRUE)
        vault_ta_amount == get_token_account_balance(accounts[ix.vault_ta])
        updated == update_vault_balance(acquired, ix.amount)
        bump == get_toctou_vault_bump(updated)
    IN  /\ CanInvoke
        /\ ix.ilen >= 8
        /\ IF ix.nacc < 5
           THEN Abort(Outcome("withdraw", ix, "NotEnoughAccountKeys", -1))
           ELSE IF ~ix.signer
           THEN Abort(Outcome("withdraw", ix, "MissingRequiredSignature", -1))
           ELSE IF ~ix.writable
           THEN Abort(Outcome("withdraw", ix, "InvalidAccountData", -1))
           ELSE IF ~is_locked.ok
           THEN Abort(Outcome("withdraw", ix, "InvalidAccountData", -1))
           ELSE IF is_locked.val
           THEN Abort(Outcome("withdraw", ix, "Custom(3)", -1))
           ELSE IF ~vault_ta_amount.ok
           THEN Abort(Outcome("withdraw", ix, "InvalidAccountData", vault.total))
           ELSE IF vault_ta_amount.val < ix.amount
           THEN Abort(Outcome("withdraw", ix, "InsufficientFunds", vault.total))
           ELSE IF ~bump.ok
           THEN Abort(Outcome("withdraw", ix, "InvalidAccountData", vault.total))
           ELSE Invoke(Frame("withdraw", ix, vault.total, updated.total, bump.val,
                             TokenTransfer(ix.token_program, ix.vault_ta, ix.user_ta,
                                           ix.vault, ix.amount,
                                           SeedsSignFor(VAULT_SEED, bump.val, ix.vault))),
                       [accounts EXCEPT ![ix.vault] = updated])

\* the transfer has returned Ok: the guard is released and withdraw returns
toctou_withdraw_returns ==
    /\ Depth > 0
    /\ Top.op = "withdraw"
    /\ Top.pc = "moved"
    /\ ReturnedWith([accounts EXCEPT
                        ![Top.ix.vault] = set_vault_locked(accounts[Top.ix.vault], FALSE)],
                    [totals EXCEPT !.paid[Top.ix.vault_ta] = @ + Top.ix.amount])

\* Anchor: the accounts are read in the order of the Withdraw struct, then
\* their constraints are checked.  The handler works on the copy of the vault
\* record made on entry: locked and total_deposits are changed in that copy,
\* which is written back only when the handler returns Ok.  The transfer is
\* invoked through CpiContext::new, with no signer seeds for the vault.
anchor_toctou_withdraw(ix) ==
    LET vault == accounts[ix.vault]
        vault_ta == accounts[ix.vault_ta]
        user_ta == accounts[ix.user_ta]
        total_deposits == checked_sub(vault.total, ix.amount)
    IN  /\ CanInvoke
        /\ IF ix.ilen < 8
           THEN Abort(Outcome("dispatch", ix, "InstructionDidNotDeserialize", -1))
           ELSE IF ix.nacc < 5
           THEN Abort(Outcome("withdraw", ix, "AccountNotEnoughKeys", -1))
           ELSE IF ~ix.signer
           THEN Abort(Outcome("withdraw", ix, "AccountNotSigner", -1))
           ELSE IF vault.owner # PROGRAM_ID
           THEN Abort(Outcome("withdraw", ix, "AccountOwnedByWrongProgram", -1))
           ELSE IF vault_ta.owner # TOKEN_PROGRAM_ID \/ user_ta.owner # TOKEN_PROGRAM_ID
           THEN Abort(Outcome("withdraw", ix, "AccountOwnedByWrongProgram", -1))
           ELSE IF ix.token_program # TOKEN_PROGRAM_ID
           THEN Abort(Outcome("withdraw", ix, "InvalidProgramId", -1))
           ELSE IF ~ix.writable
           THEN Abort(Outcome("withdraw", ix, "ConstraintMut", -1))
           ELSE IF ~SeedsSignFor(VAULT_SEED, vault.bump, ix.vault)
           THEN Abort(Outcome("withdraw", ix, "ConstraintSeeds", -1))
           ELSE IF vault_ta.authority # ix.vault
           THEN Abort(Outcome("withdraw", ix, "InvalidOwner", -1))
           ELSE IF vault.locked
           THEN Abort(Outcome("withdraw", ix, "ReentrancyBlocked", -1))
           ELSE IF vault_ta.amount < ix.amount
           THEN Abort(Outcome("withdraw", ix, "InsufficientFunds", vault.total))
           ELSE IF ~total_deposits.some
           THEN Abort(Outcome("withdraw", ix, "Panic", vault.total))
           ELSE Invoke(Frame("withdraw", ix, vault.total, total_deposits.val, vault.bump,
                             TokenTransfer(ix.token_program, ix.vault_ta, ix.user_ta,
                                           ix.vault, ix.amount, FALSE)),
                       accounts)

\* the vault record with either value of the flag, an account the caller
\* filled, the vault's token account holding 1000, and other token accounts
ToctouLedger(vault_len, locked, total) ==
    (ToctouVault.pda :> VaultRecord(PROGRAM_ID, vault_len, 0, ToctouVault.bump, locked, total))
    @@ (ForgedVault :> VaultRecord(OtherProgram, vault_len, 0, ToctouVault.bump, FALSE, total))
    @@ (VaultToken :> TokenAccount(VaultMint, ToctouVault.pda, 1000))
    @@ (OtherMintToken :> TokenAccount(OtherMint, 2, 0))
    @@ [a \in {UserToken(u) : u \in Users} |-> TokenAccount(VaultMint, a - 410, 0)]
    @@ [u \in Users |-> Wallet]

InitToctou ==
    /\ prog \in {"toctou_secure", "toctou_anchor_secure"}
    /\ \E locked \in BOOLEAN : \E total \in {500, 1000} :
          accounts = ToctouLedger(IF prog = "toctou_secure" THEN 18 ELSE 8 + 8 + 1 + 1,
                                  locked, total)
    /\ stack = <<>>
    /\ result = NoResult
    /\ totals = TokenTotals
    /\ saved = [accounts |-> accounts, totals |-> totals]
    /\ txs = 0

NextToctouPinocchio ==
    \/ \E ix \in ToctouInstructions : toctou_process_instruction_rejects(ix)
    \/ \E ix \in ToctouInstructions : toctou_withdraw(ix)
    \/ TokenTransferApplies
    \/ OtherCalleeRuns
    \/ CpiFails
    \/ toctou_withdraw_returns

NextToctouAnchor ==
    \/ \E ix \in ToctouInstructions : anchor_toctou_withdraw(ix)
    \/ TokenTransferApplies
    \/ CpiFails

NextToctou ==
    \/ prog = "toctou_secure" /\ NextToctouPinocchio
    \/ prog = "toctou_anchor_secure" /\ NextToctouAnchor

SpecToctou == InitToctou /\ [][NextToctou]_vars

InitToctouAnchor == InitToctou /\ prog = "toctou_anchor_secure"

SpecToctouAnchor == InitToctouAnchor /\ [][NextToctouAnchor]_vars

----------------------------------------------------------------------------
\* Properties of the secure TOCTOU vaults (08)

\* instruction ix passes every check made on its accounts: it is signed, names
\* the vault, the vault's token account and the token program, all writable
ValidWithdraw(ix) ==
    /\ ix.nacc >= 5 /\ ix.ilen >= 8
    /\ ix.signer /\ ix.writable
    /\ ix.vault = ToctouVault.pda
    /\ ix.vault_ta = VaultToken
    /\ ix.token_program = TOKEN_PROGRAM_ID

\* the last finished invocation was such a withdraw
WithdrawResult == result.op = "withdraw" /\ ValidWithdraw(result.ix)

\* a withdraw found the stored flag set and was turned away
LockedWithdrawBlocked ==
    (WithdrawResult /\ result.depth = 1 /\ accounts[result.ix.vault].locked) =>
        result.status = "ReentrancyBlocked"

\* C17: in the Anchor program a withdraw invoked while the stored locked flag is
\* true fails with ReentrancyBlocked and never proceeds; a withdraw invoked
\* from inside the token transfer of an in-flight withdraw is rejected with
\* ReentrancyBlocked: it never reaches a transfer of its own.
C17_ReentrantWithdrawBlocked ==
    /\ LockedWithdrawBlocked
    /\ \A i \in 2..Depth :
          (stack[i].op = "withdraw" /\ stack[i].parent = "withdraw") => FALSE
    /\ (WithdrawResult /\ result.depth > 1 /\ result.parent = "withdraw") =>
          result.status = "ReentrancyBlocked"

\* a withdraw made from inside the transfer of an in-flight withdraw on the same
\* vault found the stored flag clear and went on to its own transfer
C17_Witness ==
    /\ Depth = 2
    /\ stack[1].op = "withdraw" /\ stack[1].pc = "cpi"
    /\ stack[2].op = "withdraw" /\ stack[2].pc = "cpi"
    /\ stack[2].ix.vault = stack[1].ix.vault
    /\ ~accounts[stack[1].ix.vault].locked
    /\ stack[2].balance = stack[1].balance

\* outcomes of a withdraw that got past the guard
AfterLockSet ==
    {"Ok", "InsufficientFunds", "Panic", "PrivilegeEscalation", "IncorrectProgramId",
     "TokenInsufficientFunds", "MintMismatch", "OwnerMismatch", "CpiFailed"}

BlockedStatus == IF prog = "toctou_secure" THEN "Custom(3)" ELSE "ReentrancyBlocked"

\* a top-level withdraw has returned, with success or with an error raised
\* after the lock was set
WithdrawReturned ==
    /\ Depth = 0
    /\ result.op = "withdraw"
    /\ result.status \in AfterLockSet

\* C18: after a top-level withdraw has returned, with success or with any error
\* raised after the lock was set, the stored locked flag is false, and the
\* withdraw that comes next on that vault is not rejected by the guard.
C18_LockReleasedOnEveryExit ==
    /\ [](WithdrawReturned => ~accounts[result.ix.vault].locked)
    /\ [][(/\ WithdrawReturned
           /\ result'.op = "withdraw"
           /\ result'.ix.vault = result.ix.vault)
          => result'.status # BlockedStatus]_vars

\* a withdraw of 500 went through its transfer and returned Ok, the flag is clear
C18_Witness ==
    /\ WithdrawReturned
    /\ result.status = "Ok"
    /\ result.depth = 1
    /\ result.ix.vault = ToctouVault.pda
    /\ accounts[VaultToken].amount = 500
    /\ ~accounts[ToctouVault.pda].locked

----------------------------------------------------------------------------
\* Order of the effect step and the external transfer (03, 04 secure)

\* a step of an in-flight handler after its external transfer was invoked: the
\* transfer taking effect, or the handler returning Ok to its invoker
AfterTransferInvoked ==
    /\ Depth > 0
    /\ Top.op \in {"deposit", "withdraw"}
    /\ \/ Len(stack') = Depth /\ stack'[Depth].pc # Top.pc
       \/ Len(stack') = Depth - 1 /\ result'.status = "Ok" /\ result'.depth = Depth

\* the balance the handler computed in its effect step
EffectOf(frame) ==
    IF frame.op = "deposit" THEN frame.balance + frame.ix.amount
    ELSE frame.balance - frame.ix.amount

\* C21: within deposit and within withdraw the new balance is in storage when the
\* external transfer is invoked, and the handler writes no balance once the
\* transfer has been invoked (neither while it takes effect nor on return).
C21_EffectBeforeInteraction ==
    /\ [](\A i \in 1..Depth :
            (/\ stack[i].op \in {"deposit", "withdraw"}
             /\ i = Depth
             /\ stack[i].pc = "cpi"
             /\ stack[i].children = 0)
            => /\ stack[i].new_balance = EffectOf(stack[i])
               /\ accounts[stack[i].ix.vault].data.balance = stack[i].new_balance)
    /\ [][AfterTransferInvoked
            => \A v \in Vaults : accounts'[v].data = accounts[v].data]_vars

\* a withdraw of 500 from a recorded 1000 returned Ok without being re-entered:
\* the record holds 500, the value its effect step stored
C21_Witness ==
    /\ Depth = 0
    /\ result.op = "withdraw" /\ result.status = "Ok" /\ result.children = 0
    /\ result.seen = 1000 /\ result.ix.amount = 500
    /\ accounts[result.ix.vault].data.balance = 500

----------------------------------------------------------------------------
\* The owner field of a vault record (03, 04 secure)

\* the transaction in flight is discarded by this step
TransactionAborts == result' # result /\ result'.status # "Ok" /\ stack' = <<>>

\* C22: once a vault record holds an owner, no step of initialize, deposit or
\* withdraw, by any caller and at any depth, stores another owner in it; the
\* only way the field changes is the roll-back of the transaction whose own
\* initialize wrote it, which restores the never-initialized record.
C22_OwnerSetOnce ==
    [][\A v \in Vaults :
          accounts[v].data.owner # SYSTEM_PROGRAM_ID
          => \/ accounts'[v].data.owner = accounts[v].data.owner
             \/ /\ TransactionAborts
                /\ saved.accounts[v].data.owner = SYSTEM_PROGRAM_ID
                /\ accounts'[v] = saved.accounts[v]]_vars

\* initialize was run again on a funded vault by its owner and returned Ok: the
\* balance was reset, the owner is the one stored at creation
C22_Witness ==
    /\ result.op = "initialize" /\ result.status = "Ok"
    /\ totals.initial[result.ix.vault] = 1000
    /\ accounts[result.ix.vault].data.balance = 0
    /\ accounts[result.ix.vault].data.owner = OwnerOf(result.ix.vault)

----------------------------------------------------------------------------
\* Failure of an operation (03, 04 secure)

\* the ledger at the start of the transaction in flight
TxBegin == IF Depth = 0 THEN accounts ELSE saved.accounts

\* this step ends the transaction in flight with an error
OperationFails == txs' # txs /\ result'.status # "Ok"

----------------------------------------------------------------------------
\* Malformed and short instruction data (03, 04 secure)

\* empty data, an unknown tag, or fewer than 8 amount bytes after the tag of
\* deposit or withdraw
MalformedPayload(ix) ==
    \/ ix.ilen = 0
    \/ ix.tag \notin {0, 1, 2}
    \/ ix.tag \in {1, 2} /\ ix.ilen < 9

\* the handles are complete, the user signs and the vault is the user's
HandlesValid(ix) ==
    /\ ix.nacc = 3
    /\ ix.signer
    /\ ix.vault = VaultOf(ix.user)

\* C24: an instruction with valid handles and empty data, an unknown tag, or a
\* deposit or withdraw payload shorter than 8 amount bytes ends with the
\* InvalidInstructionData error value and changes no state.
C24_MalformedPayloadRejected ==
    (result.op # "none" /\ HandlesValid(result.ix) /\ MalformedPayload(result.ix))
    => /\ result.status = "InvalidInstructionData"
       /\ Depth = 0
       /\ accounts = saved.accounts

\* withdraw was given the tag byte alone: slicing the first 8 amount bytes
\* ended the program before any error value was returned
C24_Witness ==
    /\ result.op = "withdraw"
    /\ result.ix.tag = 2 /\ result.ix.ilen = 1
    /\ HandlesValid(result.ix)
    /\ result.status = "Panic"
    /\ accounts = saved.accounts

----------------------------------------------------------------------------
\* Operation tags of the closure program (05 secure)

\* C25: the first byte of the instruction data selects the operation as
\* 0 = initialize, 1 = deposit, 2 = withdraw, 3 = close: the closure program
\* runs close for tag 3 and for no other tag.
C25_Tag3SelectsClose ==
    /\ \A i \in 1..Depth : stack[i].op = "close" => stack[i].ix.tag = 3
    /\ result.op = "close" => result.ix.tag = 3
    /\ (result.op # "none" /\ result.ix.ilen > 0 /\ result.ix.tag = 3)
       => result.op = "close"

\* the entry point was given tag 3 and returned InvalidInstructionData without
\* running any handler
C25_Witness ==
    /\ result.op = "dispatch"
    /\ result.ix.ilen > 0 /\ result.ix.tag = 3
    /\ result.status = "InvalidInstructionData"
    /\ accounts = saved.accounts

----------------------------------------------------------------------------
\* 04-reentrancy-risk, vulnerable variant: the entry point, initialize and
\* deposit are those of the secure variant; withdraw transfers first and
\* stores the balance afterwards.

\* mutant: the difference is stored before the transfer is invoked
process_withdraw_stores_first(ix) ==
    LET found == find_program_address("vault", ix.user, PROGRAM_ID)
        data == accounts[ix.vault].data
        owner == get_owner(data)
        balance == get_balance(data)
    IN  /\ CanInvoke
        /\ ix.ilen > 0 /\ ix.tag = 2
        /\ IF ix.nacc < 2
           THEN Abort(Outcome("withdraw", ix, "NotEnoughAccountKeys", -1))
           ELSE IF ix.ilen < 9
           THEN Abort(Outcome("withdraw", ix, "Panic", -1))
           ELSE IF ~ix.signer
           THEN Abort(Outcome("withdraw", ix, "MissingRequiredSignature", -1))
           ELSE IF found.pda # ix.vault
           THEN Abort(Outcome("withdraw", ix, "InvalidSeeds", -1))
           ELSE IF ~owner.ok
           THEN Abort(Outcome("withdraw", ix, "InvalidAccountData", -1))
           ELSE IF owner.val # ix.user
           THEN Abort(Outcome("withdraw", ix, "IllegalOwner", -1))
           ELSE IF ~balance.ok
           THEN Abort(Outcome("withdraw", ix, "InvalidAccountData", -1))
           ELSE IF balance.val < ix.amount
           THEN Abort(Outcome("withdraw", ix, "InsufficientFunds", balance.val))
           ELSE Call(Frame("withdraw", ix, balance.val, balance.val, found.bump,
                           SignedTransfer("vault", ix.user, found.bump,
                                          ix.vault, ix.user, ix.amount)),
                     WithData(accounts, ix.vault,
                              set_balance(data, balance.val - ix.amount).val))

\* withdraw up to its external call: the checks, then the transfer; nothing is
\* stored
process_withdraw_vulnerable(ix) ==
    LET found == find_program_address("vault", ix.user, PROGRAM_ID)
        data == accounts[ix.vault].data
        owner == get_owner(data)
        balance == get_balance(data)
    IN  /\ CanInvoke
        /\ ix.ilen > 0 /\ ix.tag = 2
        /\ IF ix.nacc < 2
           THEN Abort(Outcome("withdraw", ix, "NotEnoughAccountKeys", -1))
           ELSE IF ix.ilen < 9
           THEN Abort(Outcome("withdraw", ix, "Panic", -1))
           ELSE IF ~ix.signer
           THEN Abort(Outcome("withdraw", ix, "MissingRequiredSignature", -1))
           ELSE IF found.pda # ix.vault
           THEN Abort(Outcome("withdraw", ix, "InvalidSeeds", -1))
           ELSE IF ~owner.ok
           THEN Abort(Outcome("withdraw", ix, "InvalidAccountData", -1))
           ELSE IF owner.val # ix.user
           THEN Abort(Outcome("withdraw", ix, "IllegalOwner", -1))
           ELSE IF ~balance.ok
           THEN Abort(Outcome("withdraw", ix, "InvalidAccountData", -1))
           ELSE IF balance.val < ix.amount
           THEN Abort(Outcome("withdraw", ix, "InsufficientFunds", balance.val))
           ELSE Call(Frame("withdraw", ix, balance.val, balance.val, found.bump,
                           SignedTransfer("vault", ix.user, found.bump,
                                          ix.vault, ix.user, ix.amount)),
                     accounts)

\* mutant: the vulnerable withdraw returns without storing the new balance
withdraw_vulnerable_returns_unstored ==
    /\ Depth > 0
    /\ Top.op = "withdraw"
    /\ Top.pc = "moved"
    /\ Returned([totals EXCEPT !.paid[Top.ix.vault] = @ + Top.ix.amount])

\* the transfer has returned Ok: withdraw subtracts the amount from the balance
\* it read before the transfer, stores the difference and returns
withdraw_vulnerable_returns ==
    /\ Depth > 0
    /\ Top.op = "withdraw"
    /\ Top.pc = "moved"
    /\ LET data == accounts[Top.ix.vault].data
           new_balance == checked_sub(Top.balance, Top.ix.amount)
           written == set_balance(data, new_balance.val)
       IN  IF ~new_balance.some
           THEN Abort(FrameOutcome("InsufficientFunds"))
           ELSE IF ~written.ok
           THEN Abort(FrameOutcome("InvalidAccountData"))
           ELSE IF ~DataWritable(WithData(accounts, Top.ix.vault, written.val))
           THEN Abort(FrameOutcome("ExternalAccountDataModified"))
           ELSE ReturnedWith(WithData(accounts, Top.ix.vault, written.val),
                             [totals EXCEPT !.paid[Top.ix.vault] = @ + Top.ix.amount])

InitReentrancyVulnerable == prog = "reentrancy_vulnerable" /\ InitLedger

NextReentrancyVulnerable ==
    \/ \E ix \in Instructions : process_instruction_rejects(ix)
    \/ \E ix \in Instructions : process_initialize(ix)
    \/ \E ix \in Instructions : process_deposit(ix)
    \/ \E ix \in Instructions : process_withdraw_vulnerable(ix)
    \/ TransferApplies
    \/ CpiFails
    \/ deposit_returns
    \/ withdraw_vulnerable_returns

SpecReentrancyVulnerable == InitReentrancyVulnerable /\ [][NextReentrancyVulnerable]_vars

----------------------------------------------------------------------------
\* The attack scenario of the vulnerable reentrancy vault

\* what the transaction in flight, or the one that just ended, has paid out of v
PaidInTransaction(v) == totals.paid[v] - saved.totals.paid[v]

\* the scenario has run to its end: withdraw(500) on a recorded balance of 1000
\* returned Ok after the one withdraw(500) made from inside its transfer step
\* had returned Ok, and the transaction made no deposit
BothWithdrawsReturned ==
    /\ Depth = 0
    /\ result.op = "withdraw" /\ result.status = "Ok" /\ result.depth = 1
    /\ result.seen = 1000 /\ result.ix.amount = 500
    /\ result.children = 1
    /\ PaidInTransaction(result.ix.vault) = 1000
    /\ totals.deposited = saved.totals.deposited

\* C26: in the vulnerable variant, a withdraw(500) re-entered during the
\* transfer step of withdraw(500) on a recorded balance of 1000 reads the
\* stale balance 1000, so it passes its balance check; when both have
\* returned, 1000 lamports have left the vault for the user.
C26_ReentrantWithdrawPaysTwice ==
    /\ (ScenarioWithdraw /\ Depth >= 2 /\ NestedWithdraw(2))
       => /\ stack[2].balance = 1000
          /\ (Depth = 2 /\ Top.children = 0)
                => accounts[Top.ix.vault].data.balance = 1000
    /\ (NestedWithdrawResult /\ result.depth = 2 /\ result.committed = 1000)
       => /\ result.seen = 1000
          /\ result.ix.amount = 500 => result.status # "InsufficientFunds"
    /\ BothWithdrawsReturned
       => /\ accounts[result.ix.vault].lamports
                = saved.accounts[result.ix.vault].lamports - 1000
          /\ accounts[result.ix.user].lamports
                = saved.accounts[result.ix.user].lamports + 1000

\* both withdrawals returned Ok and the user holds 1000 lamports more
C26_Witness ==
    /\ BothWithdrawsReturned
    /\ accounts[result.ix.user].lamports = UserLamports + 1000
    /\ accounts[result.ix.vault].lamports = RENT

\* C27: in the attack scenario the first withdrawal stores 500 and the second
\* then stores 0, so the recorded balance after both calls have returned is 0.
C27_FinalBalanceZero ==
    BothWithdrawsReturned => accounts[result.ix.vault].data.balance = 0

\* both withdrawals returned Ok, the vault has paid 1000 and records 500
C27_Witness ==
    /\ BothWithdrawsReturned
    /\ accounts[result.ix.vault].data.balance = 500
    /\ accounts[result.ix.vault].lamports = RENT

----------------------------------------------------------------------------
\* 02-incorrect-pda-validation, vulnerable variant: the entry point,
\* initialize and deposit are those of the secure variant; withdraw does not
\* compare the vault handle with the derived address.

\* withdraw up to its external call: the bump is derived from the user, the
\* transfer is made from whatever vault handle was passed
process_withdraw_pda_vulnerable(ix) ==
    LET bump == find_program_address("vault", ix.user, PROGRAM_ID).bump
    IN  /\ CanInvoke
        /\ ix.ilen > 0 /\ ix.tag = 2
        /\ IF ix.nacc < 2
           THEN Abort(Outcome("withdraw", ix, "NotEnoughAccountKeys", -1))
           ELSE IF ix.ilen < 9
           THEN Abort(Outcome("withdraw", ix, "Panic", -1))
           ELSE IF ~ix.signer
           THEN Abort(Outcome("withdraw", ix, "MissingRequiredSignature", -1))
           ELSE Call(Frame("withdraw", ix, -1, -1, bump,
                           SignedTransfer("vault", ix.user, bump,
                                          ix.vault, ix.user, ix.amount)),
                     accounts)

InitPdaVulnerable == prog = "pda_vulnerable" /\ InitLedger

NextPdaVulnerable ==
    \/ \E ix \in Instructions : process_instruction_rejects(ix)
    \/ \E ix \in Instructions : process_initialize_pda(ix)
    \/ \E ix \in Instructions : process_deposit_pda(ix)
    \/ \E ix \in Instructions : process_withdraw_pda_vulnerable(ix)
    \/ TransferApplies
    \/ CpiFails
    \/ deposit_returns
    \/ withdraw_returns

SpecPdaVulnerable == InitPdaVulnerable /\ [][NextPdaVulnerable]_vars

\* a withdraw signed by a caller on a vault derived from another user, for an
\* amount the vault holds, has ended
ForeignWithdrawEnded ==
    /\ result.op = "withdraw" /\ result.depth = 1
    /\ result.ix.signer /\ result.ix.ilen = 9
    /\ result.ix.vault # VaultOf(result.ix.user)
    /\ result.ix.amount <= saved.accounts[result.ix.vault].lamports

\* C28: in the vulnerable PDA-validation vault, a caller who signs with his own
\* key and passes another user's vault withdraws from it: unless the system
\* program fails for a reason of its own, the transfer from the supplied
\* vault, signed with the seeds derived from the caller, succeeds and the
\* withdraw returns Ok.
C28_ForeignWithdrawSucceeds ==
    (ForeignWithdrawEnded /\ result.status # "CpiFailed")
    => result.status = "Ok"

\* user 2 signed withdraw(500) on the funded vault of user 1: the transfer was
\* refused because the signer seeds derive the vault of user 2, and the vault
\* of user 1 holds what it held
C28_Witness ==
    /\ ForeignWithdrawEnded
    /\ result.ix.user = 2 /\ result.ix.vault = VaultOf(1) /\ result.ix.amount = 500
    /\ result.status = "MissingRequiredSignature"
    /\ accounts[VaultOf(1)].lamports = RENT + 1000
    /\ accounts[2].lamports = UserLamports

----------------------------------------------------------------------------
\* 01-missing-signer-check, vulnerable variant (the vault keeps no record)

\* the handles of this program carry their writable flags
SignerInstruction(t, u, s, uw, v, vw, a, n, l) ==
    [tag |-> t, user |-> u, signer |-> s, user_writable |-> uw, vault |-> v,
     vault_writable |-> vw, amount |-> a, nacc |-> n, ilen |-> l]

\* complete instructions, and instructions with empty data, the tag byte
\* alone, an unknown tag or one handle only
SignerInstructions ==
    {SignerInstruction(t, u, s, w[1], v, w[2], a, 2, 9) :
        t \in {1, 2}, u \in Users, s \in BOOLEAN, v \in Vaults, a \in Amounts,
        w \in {<<TRUE, TRUE>>, <<TRUE, FALSE>>, <<FALSE, TRUE>>}}
    \cup
    {SignerInstruction(0, u, s, TRUE, v, TRUE, 0, 2, 1) :
        u \in Users, s \in BOOLEAN, v \in Vaults}
    \cup
    {SignerInstruction(t, 1, s, TRUE, VaultOf(1), TRUE, 0, 2, l) :
        t \in {0, 1, 2, 3}, s \in BOOLEAN, l \in {0, 1}}
    \cup
    {SignerInstruction(t, 1, s, TRUE, VaultOf(1), TRUE, 0, 1, 9) :
        t \in {0, 1, 2, 3}, s \in BOOLEAN}

process_initialize_signer_vulnerable(ix) ==
    LET pda == find_program_address("vault", ix.user, PROGRAM_ID).pda
    IN  /\ CanInvoke
        /\ ix.ilen > 0 /\ ix.tag = 0
        /\ IF ix.nacc < 2
           THEN Abort(Outcome("initialize", ix, "NotEnoughAccountKeys", -1))
           ELSE IF pda # ix.vault
           THEN Abort(Outcome("initialize", ix, "InvalidSeeds", -1))
           ELSE Finish(Outcome("initialize", ix, "Ok", -1), accounts, totals)

process_deposit_signer_vulnerable(ix) ==
    LET pda == find_program_address("vault", ix.user, PROGRAM_ID).pda
    IN  /\ CanInvoke
        /\ ix.ilen > 0 /\ ix.tag = 1
        /\ IF ix.nacc < 2
           THEN Abort(Outcome("deposit", ix, "NotEnoughAccountKeys", -1))
           ELSE IF ~ix.signer
           THEN Abort(Outcome("deposit", ix, "MissingRequiredSignature", -1))
           ELSE IF ~ix.user_writable \/ ~ix.vault_writable
           THEN Abort(Outcome("deposit", ix, "InvalidAccountData", -1))
           ELSE IF pda # ix.vault
           THEN Abort(Outcome("deposit", ix, "InvalidSeeds", -1))
           ELSE IF ix.ilen < 9
           THEN Abort(Outcome("deposit", ix, "InvalidInstructionData", -1))
           ELSE Call(Frame("deposit", ix, -1, -1, 0,
                           UnsignedTransfer(ix, ix.user, ix.vault, ix.amount)),
                     accounts)

\* mutant: withdraw that requires the user's signature
process_withdraw_signer_checked(ix) ==
    LET found == find_program_address("vault", ix.user, PROGRAM_ID)
    IN  /\ CanInvoke
        /\ ix.ilen > 0 /\ ix.tag = 2
        /\ IF ix.nacc < 2
           THEN Abort(Outcome("withdraw", ix, "NotEnoughAccountKeys", -1))
           ELSE IF ix.ilen < 9
           THEN Abort(Outcome("withdraw", ix, "InvalidInstructionData", -1))
           ELSE IF ~ix.signer
           THEN Abort(Outcome("withdraw", ix, "MissingRequiredSignature", -1))
           ELSE IF ~ix.vault_writable \/ ~ix.user_writable
           THEN Abort(Outcome("withdraw", ix, "InvalidAccountData", -1))
           ELSE IF found.pda # ix.vault
           THEN Abort(Outcome("withdraw", ix, "InvalidSeeds", -1))
           ELSE Call(Frame("withdraw", ix, -1, -1, found.bump,
                           SignedTransfer("vault", ix.user, found.bump,
                                          ix.vault, ix.user, ix.amount)),
                     accounts)

\* withdraw up to its external call: the signer flag of the user is never read
process_withdraw_signer_vulnerable(ix) ==
    LET found == find_program_address("vault", ix.user, PROGRAM_ID)
    IN  /\ CanInvoke
        /\ ix.ilen > 0 /\ ix.tag = 2
        /\ IF ix.nacc < 2
           THEN Abort(Outcome("withdraw", ix, "NotEnoughAccountKeys", -1))
           ELSE IF ix.ilen < 9
           THEN Abort(Outcome("withdraw", ix, "InvalidInstructionData", -1))
           ELSE IF ~ix.vault_writable \/ ~ix.user_writable
           THEN Abort(Outcome("withdraw", ix, "InvalidAccountData", -1))
           ELSE IF found.pda # ix.vault
           THEN Abort(Outcome("withdraw", ix, "InvalidSeeds", -1))
           ELSE Call(Frame("withdraw", ix, -1, -1, found.bump,
                           SignedTransfer("vault", ix.user, found.bump,
                                          ix.vault, ix.user, ix.amount)),
                     accounts)

InitSignerVulnerable == prog = "signer_vulnerable" /\ InitLedger

NextSignerVulnerable ==
    \/ \E ix \in SignerInstructions : process_instruction_rejects(ix)
    \/ \E ix \in SignerInstructions : process_initialize_signer_vulnerable(ix)
    \/ \E ix \in SignerInstructions : process_deposit_signer_vulnerable(ix)
    \/ \E ix \in SignerInstructions : process_withdraw_signer_vulnerable(ix)
    \/ TransferApplies
    \/ CpiFails
    \/ deposit_returns
    \/ withdraw_returns

SpecSignerVulnerable == InitSignerVulnerable /\ [][NextSignerVulnerable]_vars

----------------------------------------------------------------------------
\* Properties of the vulnerable missing-signer vault

\* a top-level withdraw that was not re-entered has ended: complete data, the
\* user handle writable and not a signer, the vault handle derived from the
\* user, an amount the vault held, and no failure inside the system program
UnsignedWithdrawEnded ==
    /\ result.op = "withdraw" /\ result.depth = 1 /\ result.children = 0
    /\ result.ix.nacc >= 2 /\ result.ix.ilen = 9
    /\ ~result.ix.signer
    /\ result.ix.user_writable
    /\ result.ix.vault = VaultOf(result.ix.user)
    /\ result.ix.amount <= saved.accounts[result.ix.vault].lamports
    /\ result.status # "CpiFailed"

\* the amount went from the vault to the user
WithdrawPaid ==
    /\ result.status = "Ok"
    /\ accounts[result.ix.vault].lamports
          = saved.accounts[result.ix.vault].lamports - result.ix.amount
    /\ accounts[result.ix.user].lamports
          = saved.accounts[result.ix.user].lamports + result.ix.amount

\* C29 as stated: for any user handle that is writable but not a signer and
\* whose derived address equals the vault handle, withdraw of any amount the
\* vault holds completes.
C29_UnsignedWithdrawCompletes ==
    UnsignedWithdrawEnded => WithdrawPaid

\* C29 amended: the same, when the vault handle is writable as well; with a
\* vault handle that is not writable the withdraw fails with InvalidAccountData
\* and moves nothing.
C29_UnsignedWithdrawCompletesIfWritable ==
    UnsignedWithdrawEnded
    => IF result.ix.vault_writable
       THEN WithdrawPaid
       ELSE result.status = "InvalidAccountData" /\ accounts = saved.accounts

\* nobody signed, and the 1000 lamports deposited in the vault of user 1 are gone
C29_Witness ==
    /\ UnsignedWithdrawEnded
    /\ result.ix.vault_writable
    /\ result.ix.amount = 1000
    /\ result.status = "Ok"
    /\ accounts[VaultOf(1)].lamports = RENT
    /\ accounts[1].lamports = UserLamports + 1000

\* C30: every lamport that leaves a vault goes to the user whose identity
\* derives the vault, whoever made the call and whether or not anyone signed;
\* the only other step that lowers what a vault holds is the roll-back of a
\* failed transaction, which returns a deposit to the user who made it.
C30_WithdrawPaysDerivingUser ==
    /\ [](/\ \A i \in 1..Depth :
                stack[i].op = "withdraw" => stack[i].ix.vault = VaultOf(stack[i].ix.user)
          /\ (result.op = "withdraw" /\ result.status = "Ok")
                => result.ix.vault = VaultOf(result.ix.user))
    /\ [][\A v \in Vaults :
            accounts'[v].lamports < accounts[v].lamports
            => \/ TransactionAborts /\ accounts' = TxBegin
               \/ /\ accounts'[OwnerOf(v)].lamports - accounts[OwnerOf(v)].lamports
                        = accounts[v].lamports - accounts'[v].lamports
                  /\ \A a \in Addresses \ {v, OwnerOf(v)} :
                        accounts'[a].lamports = accounts[a].lamports]_vars

\* user 2 had the vault of user 1 pay out 500 with no signature: the lamports
\* are with user 1
C30_Witness ==
    /\ result.op = "withdraw" /\ result.status = "Ok"
    /\ ~result.ix.signer
    /\ result.ix.vault = VaultOf(1) /\ result.ix.amount = 500
    /\ accounts[1].lamports = UserLamports + 500
    /\ accounts[2].lamports = UserLamports

----------------------------------------------------------------------------
\* 05-unsafe-account-closure, vulnerable variants.  The entry point,
\* initialize and deposit of the pinocchio program are those of the secure
\* variant; its close only transfers the lamports.  The Anchor program has
\* the initialize and deposit of the Anchor vault and a close_vault that moves
\* the lamports by hand.

\* close up to its external call: the checks, then the transfer of every
\* lamport the vault holds; the data section is not touched
process_close_vulnerable(ix) ==
    LET found == find_program_address("vault", ix.user, PROGRAM_ID)
        data == accounts[ix.vault].data
        owner == get_owner(data)
        vault_lamports == accounts[ix.vault].lamports
    IN  /\ CanInvoke
        /\ ix.ilen > 0 /\ ix.tag = 2
        /\ IF ix.nacc < 2
           THEN Abort(Outcome("close", ix, "NotEnoughAccountKeys", -1))
           ELSE IF ~ix.signer
           THEN Abort(Outcome("close", ix, "MissingRequiredSignature", -1))
           ELSE IF found.pda # ix.vault
           THEN Abort(Outcome("close", ix, "InvalidSeeds", -1))
           ELSE IF ~owner.ok
           THEN Abort(Outcome("close", ix, "InvalidAccountData", -1))
           ELSE IF owner.val # ix.user
           THEN Abort(Outcome("close", ix, "IllegalOwner", -1))
           ELSE Call(Frame("close", ix, -1, -1, found.bump,
                           SignedTransfer("vault", ix.user, found.bump,
                                          ix.vault, ix.user, vault_lamports)),
                     accounts)

\* the transfer has returned Ok: close returns Ok(())
close_vulnerable_returns ==
    /\ Depth > 0
    /\ Top.op = "close"
    /\ Top.pc = "moved"
    /\ Returned([totals EXCEPT !.closed = @ \cup {Top.ix.vault}])

\* close_vault of the Anchor program: the account constraints, the comparison
\* of the stored owner, then the lamports of the vault are set to 0 and added to
\* the user's; the record is written back as it was read
close_vault_vulnerable(ix) ==
    LET vault == accounts[ix.vault]
    IN  /\ CanInvoke
        /\ ix.ilen > 0 /\ ix.tag = 2
        /\ IF ix.nacc < 2
           THEN Abort(Outcome("close", ix, "AccountNotEnoughKeys", -1))
           ELSE IF ~ix.signer
           THEN Abort(Outcome("close", ix, "AccountNotSigner", -1))
           ELSE IF ~IsVault(ix.vault)
           THEN Abort(Outcome("close", ix, "AccountNotInitialized", -1))
           ELSE IF ~SeedsMatch(ix.vault)
           THEN Abort(Outcome("close", ix, "ConstraintSeeds", -1))
           ELSE IF vault.data.owner # ix.user
           THEN Abort(Outcome("close", ix, "Unauthorized", -1))
           ELSE Commit(Outcome("close", ix, "Ok", -1),
                       Move(accounts, ix.vault, ix.user, vault.lamports),
                       [totals EXCEPT !.closed = @ \cup {ix.vault}])

\* balances the funded vault starts with
FundedBalances == Amounts \ {0}

\* Each program on its own ledger: the vault of user 1 is initialized and
\* funded, or no vault is (allocated and never initialized for the pinocchio
\* program, not yet created for the Anchor program).
InitCloseVulnerable ==
    /\ prog \in {"closure_vulnerable", "closure_anchor_vulnerable"}
    /\ \E funded \in {{}, {VaultOf(1)}} : \E b \in FundedBalances :
          accounts = [a \in Addresses |->
                        IF a \in Users THEN UserAccount
                        ELSE IF prog = "closure_vulnerable"
                        THEN IF a \in funded THEN FundedVault(OwnerOf(a), b)
                             ELSE FreshVault
                        ELSE IF a \in funded THEN AnchorVault(OwnerOf(a), b)
                             ELSE Dropped]
    /\ stack = <<>>
    /\ result = NoResult
    /\ totals = TotalsAt(accounts)
    /\ saved = [accounts |-> accounts, totals |-> totals]
    /\ txs = 0

NextClosureVulnerable ==
    \/ \E ix \in Instructions : process_instruction_rejects(ix)
    \/ \E ix \in Instructions : process_initialize_close(ix)
    \/ \E ix \in Instructions : process_deposit_close(ix)
    \/ \E ix \in Instructions : process_close_vulnerable(ix)
    \/ TransferApplies
    \/ CpiFails
    \/ deposit_returns
    \/ close_vulnerable_returns
    \/ PurgeEmpty

NextAnchorClosureVulnerable ==
    \/ \E ix \in Instructions : close_dispatch_rejects(ix)
    \/ \E ix \in Instructions : close_initialize(ix)
    \/ \E ix \in Instructions : close_deposit(ix)
    \/ \E ix \in Instructions : close_vault_vulnerable(ix)
    \/ TransferApplies
    \/ CpiFails
    \/ close_deposit_exit
    \/ PurgeEmpty

NextCloseVulnerable ==
    \/ prog = "closure_vulnerable" /\ NextClosureVulnerable
    \/ prog = "closure_anchor_vulnerable" /\ NextAnchorClosureVulnerable

SpecCloseVulnerable == InitCloseVulnerable /\ [][NextCloseVulnerable]_vars


----------------------------------------------------------------------------
\* Properties of the two vulnerable closure programs (05)

\* this step ends a close that returned Ok and that nothing re-entered
CloseVulnerableReturns ==
    /\ result' # result
    /\ result'.op = "close" /\ result'.status = "Ok"
    /\ result'.children = 0

\* the vault v holds no lamports but still carries the record of user u
Emptied(acc, v, u) ==
    /\ acc[v].lamports = 0
    /\ acc[v].owner = PROGRAM_ID
    /\ acc[v].data.len >= VAULT_SIZE
    /\ acc[v].data.owner = u

\* this step ends a top-level deposit, which nothing re-entered, of a signer
\* into the vault derived from that signer
OwnDepositEnds ==
    /\ result' # result
    /\ result'.op = "deposit" /\ result'.depth = 1
    /\ result'.children = 0
    /\ result'.ix.signer /\ result'.ix.nacc >= 3 /\ result'.ix.ilen >= 9
    /\ result'.ix.vault = VaultOf(result'.ix.user)

\* the statuses a deposit of n lamports by user u onto the balance b can end with
DepositStatuses(b, n, u) ==
    {"Ok", "CpiFailed"}
       \cup (IF b + n > U64_MAX THEN {"ArithmeticOverflow", "Panic"} ELSE {})
       \cup (IF n > TxBegin[u].lamports THEN {"InsufficientLamports"} ELSE {})

\* C31: a close of the vulnerable closure programs that returns Ok leaves the
\* vault with no lamports while the account stays the program's and its record
\* still names the user; a top-level close leaves the whole record (owner and
\* balance) as it was and pays the user what the vault held.  A vault in that
\* state has been through a close, and a later deposit of the same user into it
\* is not turned away: it ends Ok unless the sum overflows, the user lacks the
\* lamports or the transfer fails, and then it has read the stale balance,
\* stored stale balance + amount, and the vault holds the amount only.
C31_ClosedVaultRevived ==
    [][/\ CloseVulnerableReturns =>
             LET ix == result'.ix
             IN  /\ Emptied(accounts', ix.vault, ix.user)
                 /\ result'.depth = 1 =>
                       /\ accounts'[ix.vault].data = TxBegin[ix.vault].data
                       /\ accounts'[ix.user].lamports
                             = TxBegin[ix.user].lamports + TxBegin[ix.vault].lamports
       /\ (OwnDepositEnds /\ Emptied(TxBegin, result'.ix.vault, result'.ix.user)) =>
             LET ix == result'.ix
                 stale == TxBegin[ix.vault].data.balance
             IN  /\ result'.closed
                 /\ result'.status \in DepositStatuses(stale, ix.amount, ix.user)
                 /\ result'.status = "Ok" =>
                       /\ result'.seen = stale
                       /\ accounts'[ix.vault].data.balance = stale + ix.amount
                       /\ accounts'[ix.vault].data.owner = ix.user
                       /\ accounts'[ix.vault].owner = PROGRAM_ID
                       /\ accounts'[ix.vault].lamports = ix.amount
      ]_vars

\* user 1 closed the vault that recorded 500, then deposited 500 into it: the
\* record says 1000 and the vault holds 500
C31_Witness ==
    /\ Depth = 0
    /\ result.op = "deposit" /\ result.depth = 1 /\ result.status = "Ok"
    /\ result.closed
    /\ result.seen = 500 /\ result.ix.amount = 500
    /\ accounts[result.ix.vault].data.balance = 1000
    /\ accounts[result.ix.vault].lamports = 500
    /\ totals.deposited[result.ix.vault] = 500

----------------------------------------------------------------------------
\* Re-entry during the close of the secure closure program (05, pinocchio)

\* C32: in the secure closure program no operation that re-enters the program
\* while close's transfer of the remaining lamports is in flight writes to the
\* record: whenever a top-level close has returned Ok, re-entered or not, every
\* byte of the record is zero.
C32_RecordZeroAfterClose ==
    (/\ Depth = 0
     /\ result.op = "close" /\ result.depth = 1 /\ result.status = "Ok")
       => AllZero(accounts[result.ix.vault].data)

\* close returned Ok after an initialize of the same signer on the same vault
\* ran during its transfer: the record names the signer again
C32_Witness ==
    /\ Depth = 0
    /\ result.op = "close" /\ result.depth = 1 /\ result.status = "Ok"
    /\ result.children = 1
    /\ accounts[result.ix.vault].data.owner = result.ix.user
    /\ accounts[result.ix.vault].owner = SYSTEM_PROGRAM_ID
    /\ accounts[result.ix.vault].lamports = 0

----------------------------------------------------------------------------
\* Re-entry into withdraw of the secure TOCTOU vault (08, pinocchio)

\* a withdraw entered from inside the token transfer of a withdraw on the same vault
ReentrantToctouWithdraw(r) ==
    /\ r.op = "withdraw" /\ ValidWithdraw(r.ix)
    /\ r.parent = "withdraw" /\ r.pvault = r.ix.vault

\* C33: in the pinocchio program the lock is stored before the token transfer
\* is invoked, so a withdraw entered while the transfer of an in-flight withdraw
\* on the same vault is under way reads the lock as set and fails with
\* Custom(3): it never reaches a transfer of its own and moves no tokens.
C33_ReentrantWithdrawSeesLock ==
    prog = "toctou_secure" =>
       /\ \A i \in 1..Depth :
             stack[i].pc = "cpi" => get_vault_locked(accounts[stack[i].ix.vault]).val = TRUE
       /\ \A i \in 2..Depth : ~ReentrantToctouWithdraw(stack[i])
       /\ (result.depth > 1 /\ ReentrantToctouWithdraw(result)) =>
             result.status = "Custom(3)"

\* the withdraw entered during the transfer of a withdraw of 500 found the lock
\* clear and has moved 500 tokens of its own out of the vault's token account
C33_Witness ==
    /\ prog = "toctou_secure"
    /\ Depth = 2
    /\ stack[1].op = "withdraw" /\ stack[1].pc = "cpi" /\ stack[1].ix.amount = 500
    /\ ReentrantToctouWithdraw(stack[2])
    /\ stack[2].pc = "moved" /\ stack[2].ix.amount = 500
    /\ ~accounts[stack[2].ix.vault].locked
    /\ accounts[VaultToken].amount = 500

----------------------------------------------------------------------------
\* The bounds on the amount of the secure TOCTOU vault (08, Anchor)

\* what the vault's token account holds before the first instruction
TokenHoldings == {500, 1000}

\* the ledgers of the Anchor program, with the vault's token account holding
\* as much as the stored total_deposits, more, or less
InitToctouFunds ==
    /\ prog = "toctou_anchor_secure"
    /\ \E locked \in BOOLEAN : \E total \in {500, 1000} : \E held \in TokenHoldings :
          accounts = [ToctouLedger(8 + 8 + 1 + 1, locked, total) EXCEPT
                         ![VaultToken].amount = held]
    /\ stack = <<>>
    /\ result = NoResult
    /\ totals = TokenTotals
    /\ saved = [accounts |-> accounts, totals |-> totals]
    /\ txs = 0

SpecToctouFunds == InitToctouFunds /\ [][NextToctouAnchor]_vars

\* this step ends a top-level withdraw
ToctouWithdrawEnds ==
    /\ result' # result
    /\ result'.op = "withdraw" /\ result'.depth = 1

\* C34: in the Anchor program a withdraw(amount) returns Ok only if amount is at
\* most what the vault's token account holds and at most the stored
\* total_deposits.  When amount exceeds either, the withdraw ends with an error
\* and the ledger is as before it: total_deposits, the locked flag and every
\* token balance.  With valid accounts and the flag clear the error is
\* InsufficientFunds when the token account holds less than amount, and the
\* panic of checked_sub().unwrap() when only total_deposits is less.
C34_WithdrawWithinBothBounds ==
    [][ToctouWithdrawEnds =>
          LET ix == result'.ix
              held == TxBegin[ix.vault_ta].amount
              total_deposits == TxBegin[ix.vault].total
          IN  /\ result'.status = "Ok" =>
                    ix.amount <= held /\ ix.amount <= total_deposits
              /\ (ix.amount > held \/ ix.amount > total_deposits) =>
                    /\ result'.status # "Ok"
                    /\ accounts' = TxBegin
                    /\ (ValidWithdraw(ix) /\ ~TxBegin[ix.vault].locked) =>
                          result'.status = IF ix.amount > held
                                           THEN "InsufficientFunds" ELSE "Panic"
      ]_vars

\* withdraw(1000) on a vault that records 500 while its token account holds
\* 1000 has panicked, and withdraw(1000) with 500 held was refused
C34_Witness ==
    /\ Depth = 0
    /\ result.op = "withdraw" /\ ValidWithdraw(result.ix)
    /\ result.ix.amount = 1000
    /\ \/ /\ result.status = "Panic"
          /\ accounts[VaultToken].amount = 1000
          /\ accounts[result.ix.vault].total = 500
       \/ /\ result.status = "InsufficientFunds"
          /\ accounts[VaultToken].amount = 500
    /\ ~accounts[result.ix.vault].locked

----------------------------------------------------------------------------
\* 03-arithmetic-overflow, vulnerable variant (pinocchio).  The entry point and
\* process_initialize are those of the secure variant; deposit and withdraw
\* compute the new balance with the plain operators + and -.

\* mutant: the sum stops at u64::MAX
saturating_sum(a, b) ==
    {[some |-> TRUE, val |-> IF a + b > U64_MAX THEN U64_MAX ELSE a + b]}

\* old_balance + amount on u64: the sum modulo 2^64 in a build without overflow
\* checks, which is what the release profile gives; a build with overflow
\* checks panics where the sum leaves the range
unchecked_add(a, b) ==
    {[some |-> TRUE, val |-> (a + b) % (U64_MAX + 1)]}
       \cup (IF a + b > U64_MAX THEN {[some |-> FALSE, val |-> 0]} ELSE {})

\* old_balance - amount on u64, likewise
unchecked_sub(a, b) ==
    {[some |-> TRUE, val |-> (a - b) % (U64_MAX + 1)]}
       \cup (IF a < b THEN {[some |-> FALSE, val |-> 0]} ELSE {})

process_deposit_unchecked(ix) ==
    LET pda == find_program_address("vault", ix.user, PROGRAM_ID).pda
        data == accounts[ix.vault].data
        old_balance == get_balance(data)
    IN  /\ CanInvoke
        /\ ix.ilen > 0 /\ ix.tag = 1
        /\ IF ix.nacc < 3
           THEN Abort(Outcome("deposit", ix, "NotEnoughAccountKeys", -1))
           ELSE IF ~ix.signer
           THEN Abort(Outcome("deposit", ix, "MissingRequiredSignature", -1))
           ELSE IF pda # ix.vault
           THEN Abort(Outcome("deposit", ix, "InvalidSeeds", -1))
           ELSE IF ix.ilen < 9
           THEN Abort(Outcome("deposit", ix, "Panic", -1))
           ELSE IF ~old_balance.ok
           THEN Abort(Outcome("deposit", ix, "InvalidAccountData", -1))
           ELSE \E new_balance \in unchecked_add(old_balance.val, ix.amount) :
                   IF ~new_balance.some
                   THEN Abort(Outcome("deposit", ix, "Panic", old_balance.val))
                   ELSE Call(Frame("deposit", ix, old_balance.val, new_balance.val, 0,
                                   UnsignedTransfer(ix, ix.user, ix.vault, ix.amount)),
                             WithData(accounts, ix.vault,
                                      set_balance(data, new_balance.val).val))

process_withdraw_unchecked(ix) ==
    LET found == find_program_address("vault", ix.user, PROGRAM_ID)
        data == accounts[ix.vault].data
        owner == get_owner(data)
        old_balance == get_balance(data)
    IN  /\ CanInvoke
        /\ ix.ilen > 0 /\ ix.tag = 2
        /\ IF ix.nacc < 2
           THEN Abort(Outcome("withdraw", ix, "NotEnoughAccountKeys", -1))
           ELSE IF ix.ilen < 9
           THEN Abort(Outcome("withdraw", ix, "Panic", -1))
           ELSE IF ~ix.signer
           THEN Abort(Outcome("withdraw", ix, "MissingRequiredSignature", -1))
           ELSE IF found.pda # ix.vault
           THEN Abort(Outcome("withdraw", ix, "InvalidSeeds", -1))
           ELSE IF ~owner.ok
           THEN Abort(Outcome("withdraw", ix, "InvalidAccountData", -1))
           ELSE IF owner.val # ix.user
           THEN Abort(Outcome("withdraw", ix, "IllegalOwner", -1))
           ELSE IF ~old_balance.ok
           THEN Abort(Outcome("withdraw", ix, "InvalidAccountData", -1))
           ELSE \E new_balance \in unchecked_sub(old_balance.val, ix.amount) :
                   IF ~new_balance.some
                   THEN Abort(Outcome("withdraw", ix, "Panic", old_balance.val))
                   ELSE Call(Frame("withdraw", ix, old_balance.val, new_balance.val,
                                   found.bump,
                                   SignedTransfer("vault", ix.user, found.bump,
                                                  ix.vault, ix.user, ix.amount)),
                             WithData(accounts, ix.vault,
                                      set_balance(data, new_balance.val).val))

\* amounts of the deposits and withdrawals of the vulnerable arithmetic vaults
WrapAmounts == {200, 500}

\* deposits and withdrawals of either user on the vault of user 1, initialize by
\* user 1, and the malformed instructions
WrapInstructions ==
    {Instruction(t, u, s, VaultOf(1), a, 3, 9) :
        t \in {1, 2}, u \in Users, s \in BOOLEAN, a \in WrapAmounts}
    \cup {Instruction(0, 1, s, v, 0, 3, 9) : s \in BOOLEAN, v \in Vaults}
    \cup Malformed

\* balances the vault of user 1 may record before the first instruction, and
\* lamports it may hold beyond rent and that balance (anyone can send lamports
\* to the vault's address)
WrapBalances == {100, U64_MAX - 100}
ExtraLamports == {0, 200}

\* Every vault is allocated and never initialized, or the vault of user 1 has
\* been initialized and funded.
InitArithmeticVulnerable ==
    /\ prog = "arithmetic_vulnerable"
    /\ \E funded \in {{}, {VaultOf(1)}} : \E b \in WrapBalances : \E x \in ExtraLamports :
          accounts = [a \in Addresses |->
                        IF a \in Users THEN UserAccount
                        ELSE IF a \in funded
                        THEN [FundedVault(OwnerOf(a), b) EXCEPT !.lamports = @ + x]
                        ELSE FreshVault]
    /\ stack = <<>>
    /\ result = NoResult
    /\ totals = TotalsAt(accounts)
    /\ saved = [accounts |-> accounts, totals |-> totals]
    /\ txs = 0

NextArithmeticVulnerable ==
    \/ \E ix \in WrapInstructions : process_instruction_rejects(ix)
    \/ \E ix \in WrapInstructions : process_initialize_arith(ix)
    \/ \E ix \in WrapInstructions : process_deposit_unchecked(ix)
    \/ \E ix \in WrapInstructions : process_withdraw_unchecked(ix)
    \/ TransferApplies
    \/ CpiFails
    \/ deposit_returns
    \/ withdraw_returns

SpecArithmeticVulnerable == InitArithmeticVulnerable /\ [][NextArithmeticVulnerable]_vars

----------------------------------------------------------------------------
\* Properties of the vulnerable arithmetic vault (03, pinocchio)

\* the balance a deposit or withdrawal of amount n stores over the balance b
WrappedBalance(op, b, n) ==
    IF op = "deposit" THEN (b + n) % (U64_MAX + 1) ELSE (b - n) % (U64_MAX + 1)

\* C36: deposit and withdraw of the vulnerable arithmetic vault (pinocchio)
\* compare nothing before they store: no deposit ends with ArithmeticOverflow
\* and no withdraw with InsufficientFunds.  A deposit that has gone on to its
\* transfer has stored (balance + amount) mod 2^64 and a withdraw
\* (balance - amount) mod 2^64, for the balance it read, and that is the stored
\* balance once it has returned Ok: a deposit of 200 over u64::MAX - 100 stores
\* 99, a withdraw of 200 over 100 stores u64::MAX - 99.
C36_BalanceWraps ==
    /\ result.status \notin {"ArithmeticOverflow", "InsufficientFunds"}
    /\ (Depth > 0 /\ Top.children = 0) =>
          /\ Top.new_balance = WrappedBalance(Top.op, Top.balance, Top.ix.amount)
          /\ accounts[Top.ix.vault].data.balance = Top.new_balance
    /\ (/\ Depth = 0
        /\ result.op \in {"deposit", "withdraw"} /\ result.status = "Ok"
        /\ result.children = 0) =>
          accounts[result.ix.vault].data.balance
             = WrappedBalance(result.op, result.seen, result.ix.amount)

\* a deposit of 200 into the vault recording u64::MAX - 100 returned Ok and the
\* record says 99; or a withdraw of 200 from the vault recording 100 returned
\* Ok and the record says u64::MAX - 99
C36_Witness ==
    /\ Depth = 0
    /\ result.status = "Ok" /\ result.ix.amount = 200
    /\ \/ /\ result.op = "deposit"
          /\ result.seen = U64_MAX - 100
          /\ accounts[result.ix.vault].data.balance = 99
       \/ /\ result.op = "withdraw"
          /\ result.seen = 100
          /\ accounts[result.ix.vault].data.balance = U64_MAX - 99

----------------------------------------------------------------------------
\* 03-arithmetic-overflow, Anchor vulnerable variant.  initialize is that of
\* the Anchor vault above; deposit and withdraw change the balance with
\* wrapping_add and wrapping_sub.

\* vault.balance.wrapping_sub(amount)
wrapping_sub(a, b) == (a - b) % (U64_MAX + 1)

\* deposit up to its external call: the balance is changed in the copy of the
\* record, which deposit_exit writes back
deposit_wrapping(ix) ==
    LET balance == accounts[ix.vault].data.balance
        new_balance == (balance + ix.amount) % (U64_MAX + 1)
    IN  /\ CanInvoke
        /\ ix.ilen >= 9 /\ ix.tag = 1
        /\ IF ix.nacc < 3
           THEN Abort(Outcome("deposit", ix, "AccountNotEnoughKeys", -1))
           ELSE IF ~ix.signer
           THEN Abort(Outcome("deposit", ix, "AccountNotSigner", -1))
           ELSE IF ~IsVault(ix.vault)
           THEN Abort(Outcome("deposit", ix, "AccountNotInitialized", -1))
           ELSE IF ~SeedsMatch(ix.vault)
           THEN Abort(Outcome("deposit", ix, "ConstraintSeeds", -1))
           ELSE Call(Frame("deposit", ix, balance, new_balance, 0,
                           UnsignedTransfer(ix, ix.user, ix.vault, ix.amount)),
                     accounts)

\* what ends a withdraw whose `-= amount` on the vault's lamports leaves the
\* range: a panic in a build with overflow checks, and otherwise the runtime's
\* refusal of an instruction that changed the sum of the lamports
LamportsUnderflow == {"Panic", "UnbalancedInstruction"}

\* withdraw: the constraints, the comparison of the stored owner, the wrapping
\* subtraction in the copy of the record, then the lamports are moved by hand;
\* the copy is written back when the handler returns Ok
withdraw_wrapping(ix) ==
    LET vault == accounts[ix.vault]
        balance == vault.data.balance
        new_balance == wrapping_sub(balance, ix.amount)
    IN  /\ CanInvoke
        /\ ix.ilen >= 9 /\ ix.tag = 2
        /\ IF ix.nacc < 2
           THEN Abort(Outcome("withdraw", ix, "AccountNotEnoughKeys", -1))
           ELSE IF ~ix.signer
           THEN Abort(Outcome("withdraw", ix, "AccountNotSigner", -1))
           ELSE IF ~IsVault(ix.vault)
           THEN Abort(Outcome("withdraw", ix, "AccountNotInitialized", -1))
           ELSE IF ~SeedsMatch(ix.vault)
           THEN Abort(Outcome("withdraw", ix, "ConstraintSeeds", -1))
           ELSE IF vault.data.owner # ix.user
           THEN Abort(Outcome("withdraw", ix, "Unauthorized", -1))
           ELSE IF vault.lamports < ix.amount
           THEN \E status \in LamportsUnderflow :
                   Abort(Outcome("withdraw", ix, status, balance))
           ELSE Commit(Outcome("withdraw", ix, "Ok", balance),
                       [Move(accounts, ix.vault, ix.user, ix.amount) EXCEPT
                           ![ix.vault].data.balance = new_balance],
                       [totals EXCEPT !.paid[ix.vault] = @ + ix.amount])

\* No vault account exists yet, or the vault of user 1 has been created and funded.
InitAnchorArithmeticVulnerable ==
    /\ prog = "arithmetic_anchor_vulnerable"
    /\ \E funded \in {{}, {VaultOf(1)}} : \E b \in InitialBalances :
          accounts = [a \in Addresses |->
                        IF a \in Users THEN UserAccount
                        ELSE IF a \in funded THEN AnchorVault(OwnerOf(a), b)
                        ELSE Dropped]
    /\ stack = <<>>
    /\ result = NoResult
    /\ totals = TotalsAt(accounts)
    /\ saved = [accounts |-> accounts, totals |-> totals]
    /\ txs = 0

NextAnchorArithmeticVulnerable ==
    \/ \E ix \in Instructions : dispatch_rejects(ix)
    \/ \E ix \in Instructions : initialize(ix)
    \/ \E ix \in Instructions : deposit_wrapping(ix)
    \/ \E ix \in Instructions : withdraw_wrapping(ix)
    \/ TransferApplies
    \/ CpiFails
    \/ deposit_exit

SpecAnchorArithmeticVulnerable ==
    InitAnchorArithmeticVulnerable /\ [][NextAnchorArithmeticVulnerable]_vars

\* this step ends a top-level withdraw of a signer that passed the account
\* constraints and the comparison of the stored owner
OwnWithdrawEnds ==
    /\ result' # result
    /\ result'.op = "withdraw" /\ result'.depth = 1
    /\ result'.ix.signer /\ result'.ix.nacc >= 2
    /\ TxBegin[result'.ix.vault].owner = PROGRAM_ID
    /\ TxBegin[result'.ix.vault].data.len = VaultSpace
    /\ TxBegin[result'.ix.vault].data.owner = result'.ix.user
    /\ result'.ix.vault = VaultOf(result'.ix.user)

\* C35: in the vulnerable arithmetic vault (Anchor) a withdraw of more than the
\* stored balance leaves (balance - amount) mod 2^64 as the stored balance,
\* whether the movement of the lamports that follows succeeds or fails for
\* lack of lamports.
C35_WrappedBalancePersists ==
    [][(OwnWithdrawEnds
          /\ result'.ix.amount > TxBegin[result'.ix.vault].data.balance) =>
             accounts'[result'.ix.vault].data.balance
                = wrapping_sub(TxBegin[result'.ix.vault].data.balance, result'.ix.amount)
      ]_vars

\* withdraw(500) on the vault that user 1 has just initialized failed at the
\* movement of the lamports, and the record still says 0
C35_Witness ==
    /\ Depth = 0
    /\ result.op = "withdraw" /\ result.depth = 1
    /\ result.status \in LamportsUnderflow
    /\ result.seen = 0 /\ result.ix.amount = 500
    /\ accounts[result.ix.vault].data.balance = 0
    /\ accounts[result.ix.vault].data.owner = result.ix.user
    /\ accounts[result.ix.vault].lamports = RENT

\* a withdraw of more than the stored balance whose movement succeeded: the
\* record holds the wrapped balance
WrappedWithdrawReturned ==
    /\ Depth = 0
    /\ result.op = "withdraw" /\ result.depth = 1 /\ result.status = "Ok"
    /\ result.ix.amount > result.seen
    /\ accounts[result.ix.vault].data.balance
          = wrapping_sub(result.seen, result.ix.amount)

----------------------------------------------------------------------------
\* Nested deposits and withdrawals of the secure reentrancy vault (04)

\* the calls of a tree of deposits and withdrawals: every step of the secure
\* reentrancy vault but initialize
NextReentrancyCalls ==
    \/ \E ix \in Instructions : process_instruction_rejects(ix)
    \/ \E ix \in Instructions : process_deposit(ix)
    \/ \E ix \in Instructions : process_withdraw(ix)
    \/ TransferApplies
    \/ CpiFails
    \/ deposit_returns
    \/ withdraw_returns

SpecReentrancyCalls == InitReentrancy /\ [][NextReentrancyCalls]_vars

\* what the successful deposits, less the successful withdrawals, of the
\* transaction that ended last add up to on the vault v
NetOfTree(v) ==
    (totals.deposited[v] - saved.totals.deposited[v])
       - (totals.paid[v] - saved.totals.paid[v])

\* C37: once the outermost call of a tree of deposits and withdrawals, in which
\* calls re-enter while the transfer of another is in flight, has returned Ok,
\* the stored balance of every vault is its balance before the outermost call
\* plus the amounts of the successful deposits of the tree less the amounts of
\* its successful withdrawals.
C37_NoLostUpdate ==
    (Depth = 0 /\ result.depth = 1 /\ result.status = "Ok") =>
        \A v \in Vaults :
            accounts[v].data.balance = saved.accounts[v].data.balance + NetOfTree(v)

\* withdraw(500) returned Ok after a withdraw(500) that re-entered during its
\* transfer: 1000 has been paid and the record went from 1000 to 0
C37_Witness ==
    /\ Depth = 0
    /\ result.op = "withdraw" /\ result.depth = 1 /\ result.status = "Ok"
    /\ result.children = 1
    /\ result.ix.amount = 500
    /\ saved.accounts[result.ix.vault].data.balance = 1000
    /\ accounts[result.ix.vault].data.balance = 0
    /\ NetOfTree(result.ix.vault) = -1000

----------------------------------------------------------------------------
\* Solvency of the secure reentrancy vault (04)

\* C38: whenever a top-level initialize, deposit or withdraw of the secure
\* reentrancy vault has completed and nothing is in flight, every vault account
\* holds at least as many lamports as its record says, and so it does before the
\* first operation.
C38_VaultSolvent ==
    Depth = 0 =>
        \A v \in Vaults : accounts[v].lamports >= accounts[v].data.balance

\* after a withdraw of 500 by its owner the vault records 500 and holds 500
\* besides its rent
C38_Witness ==
    /\ Depth = 0
    /\ result.op = "withdraw" /\ result.depth = 1 /\ result.status = "Ok"
    /\ result.ix.amount = 500
    /\ accounts[result.ix.vault].data.balance = 500
    /\ accounts[result.ix.vault].lamports = RENT + 500
    /\ accounts[result.ix.user].lamports = UserLamports + 500

----------------------------------------------------------------------------
\* The secure and the vulnerable reentrancy vault (04), call by call

\* each of the two programs deployed on its own ledger, from the same ledgers
InitReentrancyPair ==
    prog \in {"reentrancy_secure", "reentrancy_vulnerable"} /\ InitLedger

NextReentrancyPair ==
    \/ prog = "reentrancy_secure" /\ NextReentrancy
    \/ prog = "reentrancy_vulnerable" /\ NextReentrancyVulnerable

SpecReentrancyPair == InitReentrancyPair /\ [][NextReentrancyPair]_vars

\* the result of a top-level call ix made on the ledger acc when nothing
\* re-enters the program and the transfer does not fail inside the system program
CallStatus(acc, ix) ==
    LET data == acc[ix.vault].data
        derived == VaultOf(ix.user) = ix.vault
    IN  IF ix.ilen = 0 \/ ix.tag \notin {0, 1, 2} THEN "InvalidInstructionData"
        ELSE IF ix.tag = 0
        THEN IF ix.nacc < 2 THEN "NotEnoughAccountKeys"
             ELSE IF ~ix.signer THEN "MissingRequiredSignature"
             ELSE IF ~derived THEN "InvalidSeeds"
             ELSE IF data.len < VAULT_SIZE THEN "InvalidAccountData"
             ELSE "Ok"
        ELSE IF ix.tag = 1
        THEN IF ix.nacc < 3 THEN "NotEnoughAccountKeys"
             ELSE IF ~ix.signer THEN "MissingRequiredSignature"
             ELSE IF ~derived THEN "InvalidSeeds"
             ELSE IF ix.ilen < 9 THEN "Panic"
             ELSE IF data.len < VAULT_SIZE THEN "InvalidAccountData"
             ELSE IF data.balance + ix.amount > U64_MAX THEN "ArithmeticOverflow"
             ELSE IF acc[ix.user].lamports < ix.amount THEN "InsufficientLamports"
             ELSE "Ok"
        ELSE IF ix.nacc < 2 THEN "NotEnoughAccountKeys"
             ELSE IF ix.ilen < 9 THEN "Panic"
             ELSE IF ~ix.signer THEN "MissingRequiredSignature"
             ELSE IF ~derived THEN "InvalidSeeds"
             ELSE IF data.len < VAULT_SIZE THEN "InvalidAccountData"
             ELSE IF data.owner # ix.user THEN "IllegalOwner"
             ELSE IF data.balance < ix.amount THEN "InsufficientFunds"
             ELSE IF acc[ix.vault].lamports < ix.amount THEN "InsufficientLamports"
             ELSE "Ok"

\* the ledger that call leaves: stored owner, stored balance and lamports
CallLedger(acc, ix) ==
    IF CallStatus(acc, ix) # "Ok" THEN acc
    ELSE IF ix.tag = 0
    THEN [acc EXCEPT ![ix.vault].data.owner = ix.user, ![ix.vault].data.balance = 0]
    ELSE IF ix.tag = 1
    THEN [Move(acc, ix.user, ix.vault, ix.amount) EXCEPT
             ![ix.vault].data.balance = @ + ix.amount]
    ELSE [Move(acc, ix.vault, ix.user, ix.amount) EXCEPT
             ![ix.vault].data.balance = @ - ix.amount]

\* this step ends a top-level call that nothing re-entered
PlainCallEnds ==
    /\ result' # result
    /\ stack' = <<>>
    /\ result'.depth = 1 /\ result'.children = 0

\* C39: a top-level initialize, deposit or withdraw that is not re-entered
\* during its transfer gives the same result in the secure and in the vulnerable
\* reentrancy vault, and leaves the same stored owner, stored balance and
\* lamports: in either program the result and the ledger are those that the
\* instruction and the ledger before the call determine (a transfer that fails
\* inside the system program fails the call in both and leaves the ledger as it
\* was).  Sequences of such calls therefore take both programs through the same
\* results and ledgers.
C39_SameWithoutReentry ==
    [][PlainCallEnds =>
          IF result'.status = "CpiFailed"
          THEN /\ accounts' = TxBegin
               /\ result'.op \in {"deposit", "withdraw"}
               /\ CallStatus(TxBegin, result'.ix) \in {"Ok", "InsufficientLamports"}
          ELSE /\ result'.status = CallStatus(TxBegin, result'.ix)
               /\ accounts' = CallLedger(TxBegin, result'.ix)
      ]_vars

\* the vulnerable program has returned Ok from a withdraw of 500 on the vault
\* recording 1000: 500 stored, 500 moved to the owner
C39_Witness ==
    /\ prog = "reentrancy_vulnerable"
    /\ Depth = 0
    /\ result.op = "withdraw" /\ result.depth = 1 /\ result.status = "Ok"
    /\ result.children = 0
    /\ result.seen = 1000 /\ result.ix.amount = 500
    /\ accounts[result.ix.vault].data.balance = 500
    /\ accounts[result.ix.vault].lamports = RENT + 500
    /\ accounts = CallLedger(saved.accounts, result.ix)

----------------------------------------------------------------------------
\* Deposit followed by withdraw in the secure arithmetic vault (03, pinocchio)

\* balances the initialized vault records before the first instruction
RoundTripBalances == {0, 500}

\* The vault of user 1 has been initialized, and holds the deposits its record
\* says; the vault of user 2 is allocated and never initialized.
InitArithmeticRoundTrip ==
    /\ prog = "arithmetic_secure"
    /\ \E b \in RoundTripBalances :
          accounts = [a \in Addresses |->
                        IF a \in Users THEN UserAccount
                        ELSE IF a = VaultOf(1) THEN FundedVault(1, b)
                        ELSE FreshVault]
    /\ stack = <<>>
    /\ result = NoResult
    /\ totals = TotalsAt(accounts)
    /\ saved = [accounts |-> accounts, totals |-> totals]
    /\ txs = 0

SpecArithmeticRoundTrip == InitArithmeticRoundTrip /\ [][NextArithmetic]_vars

\* the instruction of the invocation this step starts
StartedIx == IF stack' # <<>> THEN stack'[1].ix ELSE result'.ix

\* The last transaction was a deposit by the owner of an initialized vault,
\* which nothing re-entered and which returned Ok, and this step invokes
\* withdraw by the same signer on the same vault for the same amount.
WithdrawFollowsDeposit ==
    /\ Depth = 0
    /\ result.op = "deposit" /\ result.status = "Ok"
    /\ result.depth = 1 /\ result.children = 0
    /\ saved.accounts[result.ix.vault].data.owner = result.ix.user
    /\ \/ stack' # <<>> /\ stack'[1].op = "withdraw"
       \/ stack' = <<>> /\ result' # result /\ result'.op = "withdraw"
    /\ StartedIx.user = result.ix.user
    /\ StartedIx.vault = result.ix.vault
    /\ StartedIx.amount = result.ix.amount
    /\ StartedIx.signer /\ StartedIx.nacc >= 2 /\ StartedIx.ilen >= 9

\* C40: when deposit(amount) by the owner of an initialized vault has returned
\* Ok, the withdraw(amount) by the owner that follows passes every check: it
\* stores the balance the vault recorded before the deposit and hands the
\* system program a transfer after which every account holds what it held
\* before the deposit.  That transfer moves exactly the amount, and the withdraw
\* returns Ok after it without changing anything else.
C40_DepositWithdrawRoundTrip ==
    [][/\ WithdrawFollowsDeposit =>
             LET ix == result.ix
                 before == saved.accounts
             IN  /\ Len(stack') = 1
                 /\ stack'[1].cpi = SignedTransfer("vault", ix.user, stack'[1].bump,
                                                   ix.vault, ix.user, ix.amount)
                 /\ stack'[1].cpi.authorized
                 /\ accounts[ix.vault].lamports >= ix.amount
                 /\ accounts'[ix.vault].data.balance = before[ix.vault].data.balance
                 /\ Move(accounts', ix.vault, ix.user, ix.amount) = before
       /\ (/\ Depth = 1 /\ Top.op = "withdraw" /\ Top.children = 0
           /\ Top.pc = "cpi"
           /\ Len(stack') = 1 /\ stack'[1].pc = "moved") =>
             accounts' = Move(accounts, Top.ix.vault, Top.ix.user, Top.ix.amount)
       /\ (/\ Depth = 1 /\ Top.op = "withdraw" /\ Top.children = 0
           /\ stack' = <<>> /\ result'.status = "Ok") =>
             Top.pc = "moved" /\ accounts' = accounts
      ]_vars

\* user 1 deposited 500 into the vault recording 500 and withdrew 500: the
\* vault records 500 and holds 500 besides its rent again, the user holds what
\* the user held
C40_Witness ==
    /\ Depth = 0
    /\ result.op = "withdraw" /\ result.depth = 1 /\ result.status = "Ok"
    /\ result.children = 0
    /\ result.seen = 1000 /\ result.ix.amount = 500
    /\ totals.deposited[result.ix.vault] = 500
    /\ totals.paid[result.ix.vault] = 500
    /\ accounts[result.ix.vault] = FundedVault(result.ix.user, 500)
    /\ accounts[result.ix.user] = UserAccount

====
